---------------------------- MODULE Spec2Model ----------------------------
(***************************************************************************)
(* SpenGo: token lifecycle manager (authService), session storage          *)
(* (storageService), auth/expense controllers and the spreadsheet helpers, *)
(* modelled as state machines over one browser tab, the identity provider  *)
(* (GIS token client) and the remote spreadsheet.                          *)
(***************************************************************************)
EXTENDS Integers, Sequences, FiniteSets, TLC

VARIABLES
    tokenClient,        \* authService _tokenClient: TRUE once initTokenClient ran
    initPc,             \* AuthService.init(): "loading" | "done" | "failed"
    accessToken,        \* authService _accessToken
    pendingFlowType,    \* authService _pendingFlowType
    silentRefreshTimer, \* authService _silentRefreshTimer: handle of the last setTimeout, 0 = null
    tokenWaiters,       \* authService _tokenWaiters: queue of waitForToken callers
    sessionStorage,     \* tab-scoped storage: key -> value
    localStorage,       \* durable storage: key -> value
    appState,           \* AppState singleton (auth.accessToken, auth.status, data.*)
    now,                \* Date.now() in ms
    flows,              \* identity provider: one entry per requestAccessToken call
    callers,            \* promise returned to each waitForToken caller
    tasks,              \* suspended async functions (awaiting a network reply or a timer)
    remote,             \* the user's Drive: the spreadsheets and their rows
    uuidCount,          \* number of uuid() values drawn so far
    dom,                \* the page: whether #btn-google is disabled
    last                \* the handler that ran last and the callbacks it invoked

vars == << tokenClient, initPc, accessToken, pendingFlowType, silentRefreshTimer,
           tokenWaiters, sessionStorage, localStorage, appState, now, flows,
           callers, tasks, remote, uuidCount, dom, last >>

NULL == "null"

\* ------------------------------------------------------------------ bounds
MaxFlows   == 2     \* requestAccessToken calls in one run
MaxCallers == 2     \* waitForToken calls in one run
MaxTicks   == 2     \* clock steps of SILENT_REFRESH_TIMEOUT_MS in one run
MaxTasks   == 2     \* async functions suspended at the same time

Callers == 1 .. MaxCallers

\* ------------------------------------------------------------- storage keys
\* storageService.js LOCAL_STORAGE / SESSION_STORAGE
SHEET_ID         == "spengo_sheet_id"
EXPENSES         == "spengo_expenses"
LOGIN_HINT       == "google_login_hint"
NUMERIC_SHEET_ID == "spengo_numeric_sheet_id"
ACCESS_TOKEN     == "google_access_token"
EXPIRES_AT       == "google_token_expires_at"

\* Web Storage: a partial map from keys to values
hasItem(store, k)    == k \in DOMAIN store
setItem(store, k, v) == [x \in (DOMAIN store) \cup {k} |-> IF x = k THEN v ELSE store[x]]
removeItem(store, k) == [x \in (DOMAIN store) \ {k} |-> store[x]]
EmptyStore           == [x \in {} |-> NULL]

\* ----------------------------------------------------------- storageService
saveSession(w, token, expiresAt) ==
    [w EXCEPT !.sessionStorage =
        setItem(setItem(@, ACCESS_TOKEN, token), EXPIRES_AT, expiresAt)]

clearSession(w) ==
    [w EXCEPT !.sessionStorage = removeItem(removeItem(@, ACCESS_TOKEN), EXPIRES_AT)]

getAccessToken(w) ==
    IF hasItem(w.sessionStorage, ACCESS_TOKEN) THEN w.sessionStorage[ACCESS_TOKEN] ELSE NULL

\* String(expiresAt) / Number(...) is exact on integers: the integer is stored
isTokenExpired(w) ==
    IF ~hasItem(w.sessionStorage, EXPIRES_AT) THEN TRUE
    ELSE w.now > w.sessionStorage[EXPIRES_AT]

saveLoginHint(w, email) == [w EXCEPT !.localStorage = setItem(@, LOGIN_HINT, email)]

getLoginHint(w) ==
    IF hasItem(w.localStorage, LOGIN_HINT) THEN w.localStorage[LOGIN_HINT] ELSE ""

saveSheetId(w, id) == [w EXCEPT !.localStorage = setItem(@, SHEET_ID, id)]

getSheetId(w) ==
    IF hasItem(w.localStorage, SHEET_ID) THEN w.localStorage[SHEET_ID] ELSE NULL

\* The text under the cache key, by what JSON.parse makes of it: the text of
\* an array of records (v), of null, of an object, of a number, of a boolean,
\* text that is no JSON, or ''
JSONstringify(expenses) == [json |-> "array", v |-> expenses]

saveExpenses(w, expenses) ==
    [w EXCEPT !.localStorage = setItem(@, EXPENSES, JSONstringify(expenses))]

\* the value getExpenses() returns: raw ? JSON.parse(raw) : [], and [] when
\* JSON.parse threw; type is what the value is, v its elements when an array
getExpensesValue(store) ==
    IF ~hasItem(store, EXPENSES) THEN [type |-> "array", v |-> << >>]
    ELSE LET raw == store[EXPENSES]
         IN  CASE raw.json = "empty"   -> [type |-> "array", v |-> << >>]
               [] raw.json = "invalid" -> [type |-> "array", v |-> << >>]
               [] raw.json = "array"   -> [type |-> "array", v |-> raw.v]
               [] OTHER                -> [type |-> raw.json, v |-> << >>]

\* getExpenses() where the cache key holds what saveExpenses wrote, or nothing
getExpenses(w) == getExpensesValue(w.localStorage).v

getStoredSession(w) ==
    [ accessToken  |-> getAccessToken(w),
      sheetId      |-> getSheetId(w),
      expenses     |-> getExpenses(w),
      loginHint    |-> getLoginHint(w),
      tokenExpired |-> isTokenExpired(w) ]

clearAll(w) ==
    [clearSession(w) EXCEPT !.localStorage =
        removeItem(removeItem(removeItem(removeItem(@, SHEET_ID), EXPENSES),
                              LOGIN_HINT), NUMERIC_SHEET_ID)]

saveNumericSheetId(w, numericSheetId) ==
    [w EXCEPT !.localStorage = setItem(@, NUMERIC_SHEET_ID, numericSheetId)]

\* the cached number, or null (has = FALSE)
getNumericSheetId(w) ==
    IF hasItem(w.localStorage, NUMERIC_SHEET_ID)
    THEN [has |-> TRUE, v |-> w.localStorage[NUMERIC_SHEET_ID]]
    ELSE [has |-> FALSE, v |-> 0]

\* JavaScript truthiness of a string-or-null value
truthy(v) == v # NULL /\ v # ""


\* ------------------------------------------------------------------- world
\* The handlers below are functions from the state before to the state after.
World ==
    [ tokenClient |-> tokenClient, initPc |-> initPc, accessToken |-> accessToken,
      pendingFlowType |-> pendingFlowType, silentRefreshTimer |-> silentRefreshTimer,
      tokenWaiters |-> tokenWaiters, sessionStorage |-> sessionStorage,
      localStorage |-> localStorage, appState |-> appState, now |-> now,
      flows |-> flows, callers |-> callers, tasks |-> tasks, remote |-> remote,
      uuidCount |-> uuidCount, dom |-> dom, last |-> last ]

Commit(w) ==
    /\ tokenClient' = w.tokenClient
    /\ initPc' = w.initPc
    /\ accessToken' = w.accessToken
    /\ pendingFlowType' = w.pendingFlowType
    /\ silentRefreshTimer' = w.silentRefreshTimer
    /\ tokenWaiters' = w.tokenWaiters
    /\ sessionStorage' = w.sessionStorage
    /\ localStorage' = w.localStorage
    /\ appState' = w.appState
    /\ now' = w.now
    /\ flows' = w.flows
    /\ callers' = w.callers
    /\ tasks' = w.tasks
    /\ remote' = w.remote
    /\ uuidCount' = w.uuidCount
    /\ dom' = w.dom
    /\ last' = w.last

NoBurst == [n |-> 0, started |-> 0, prior |-> FALSE]

\* Start of a handler: op names it, flow is the provider flow it belongs to (0: none)
Begin(w, op, flow, detail) ==
    [w EXCEPT !.last = [op |-> op, flow |-> flow, detail |-> detail, sigs |-> << >>,
                        settled |-> {}, toast |-> NULL, burst |-> NoBurst]]

\* A callback of _callbacks (or a toast) invoked by the running handler
Signal(w, sig)  == [w EXCEPT !.last.sigs = Append(@, sig)]
showToast(w, kind) == [w EXCEPT !.last.toast = kind]

\* Suspend an async function at an await
Spawn(w, type, pc, arg) ==
    [w EXCEPT !.tasks = Append(@, [type |-> type, pc |-> pc, arg |-> arg])]

RemoveAt(s, i) == SubSeq(s, 1, i - 1) \o SubSeq(s, i + 1, Len(s))
Range(s) == { s[i] : i \in DOMAIN s }


\* ------------------------------------------------- authService: starting flows
SILENT_REFRESH_TIMEOUT_MS == 5000

\* one entry per call: answered once a channel delivered its reply, timer is
\* the state of the fallback timer armed with it ("none" for signIn), due at
requestAccessToken(w, kind, hint) ==
    [w EXCEPT !.flows = Append(@, [kind |-> kind, hint |-> hint, answered |-> FALSE,
                                   timer |-> IF kind = "silent" THEN "armed" ELSE "none",
                                   due |-> w.now + SILENT_REFRESH_TIMEOUT_MS])]

\* silentRefresh(): tags the flow, arms the fallback timer (the handle of an
\* earlier timer is overwritten, not cleared) and calls the provider
\* silentRefresh that never passes a login_hint
silentRefreshNoHint(w) ==
    IF ~w.tokenClient THEN w
    ELSE requestAccessToken([w EXCEPT !.pendingFlowType = "silent",
                                      !.silentRefreshTimer = Len(w.flows) + 1],
                            "silent", "")

silentRefresh(w) ==
    IF ~w.tokenClient THEN w
    ELSE LET tagged == [w EXCEPT !.pendingFlowType = "silent",
                                 !.silentRefreshTimer = Len(w.flows) + 1]
             hint   == IF hasItem(w.localStorage, LOGIN_HINT)
                       THEN w.localStorage[LOGIN_HINT] ELSE ""
         IN  requestAccessToken(tagged, "silent", hint)

\* signIn that asks the provider without looking at the token client
signInNoGuard(w) ==
    requestAccessToken([w EXCEPT !.pendingFlowType = "interactive"],
                       "interactive", NULL)

signIn(w) ==
    IF ~w.tokenClient THEN Signal(w, "onError")
    ELSE requestAccessToken([w EXCEPT !.pendingFlowType = "interactive"],
                            "interactive", NULL)

\* waitForToken without the check for a silent flow already pending
waitForTokenNoCoalescing(w, c) ==
    IF w.accessToken # NULL /\ ~isTokenExpired(w)
    THEN [w EXCEPT !.callers[c] = [st |-> "resolved", val |-> w.accessToken]]
    ELSE silentRefresh([w EXCEPT !.tokenWaiters = Append(@, c),
                                 !.callers[c] = [st |-> "pending", val |-> NULL]])

waitForToken(w, c) ==
    IF w.accessToken # NULL /\ ~isTokenExpired(w)
    THEN [w EXCEPT !.callers[c] = [st |-> "resolved", val |-> w.accessToken]]
    ELSE LET queued == [w EXCEPT !.tokenWaiters = Append(@, c),
                                 !.callers[c] = [st |-> "pending", val |-> NULL]]
         IN  IF queued.pendingFlowType # "silent" THEN silentRefresh(queued) ELSE queued

\* ------------------------------------------------------------ authController
showScreen(w, name) == [w EXCEPT !.appState.currentScreen = name]

_enableSignInButton(w)  == [w EXCEPT !.dom.btnGoogleDisabled = FALSE]
_disableSignInButton(w) == [w EXCEPT !.dom.btnGoogleDisabled = TRUE]

_toUnauthenticated(w) ==
    _enableSignInButton(showScreen([w EXCEPT !.appState.authStatus = "unauthenticated"],
                                   "auth"))

_startSilentRestore(w, sheetId, expenses) ==
    LET w1 == [w EXCEPT !.appState.spreadsheetId = sheetId,
                        !.appState.authStatus = "restoring"]
        w2 == IF Len(expenses) > 0
              THEN showScreen([w1 EXCEPT !.appState.expenses = expenses], "main")
              ELSE _disableSignInButton(showScreen(w1, "auth"))
    IN  silentRefresh(w2)

\* _restoreSession without the proactive silentRefresh()
_restoreSessionNoRefresh(w, token, sheetId, expenses) ==
    LET w1 == [w EXCEPT !.appState.accessToken = token,
                        !.appState.spreadsheetId = sheetId,
                        !.appState.authStatus = "restoring"]
    IN  IF Len(expenses) > 0
        THEN showScreen([w1 EXCEPT !.appState.expenses = expenses], "main")
        ELSE showScreen(w1, "setup")

_restoreSession(w, token, sheetId, expenses) ==
    LET w1 == [w EXCEPT !.appState.accessToken = token,
                        !.appState.spreadsheetId = sheetId,
                        !.appState.authStatus = "restoring"]
        w2 == IF Len(expenses) > 0
              THEN showScreen([w1 EXCEPT !.appState.expenses = expenses], "main")
              ELSE showScreen(w1, "setup")
    IN  silentRefresh(w2)

\* onAuthReady without the early return for a missing sheet id
onAuthReadyNoSheetCheck(w) ==
    LET s == getStoredSession(w)
    IN  IF ~truthy(s.accessToken) THEN _startSilentRestore(w, s.sheetId, s.expenses)
        ELSE IF s.tokenExpired THEN _startSilentRestore(w, s.sheetId, s.expenses)
        ELSE _restoreSession(w, s.accessToken, s.sheetId, s.expenses)

onAuthReady(w) ==
    LET s == getStoredSession(w)
    IN  IF ~truthy(s.sheetId) THEN _toUnauthenticated(w)
        ELSE IF ~truthy(s.accessToken) THEN _startSilentRestore(w, s.sheetId, s.expenses)
        ELSE IF s.tokenExpired THEN _startSilentRestore(w, s.sheetId, s.expenses)
        ELSE _restoreSession(w, s.accessToken, s.sheetId, s.expenses)

\* onSilentFail wiping the durable keys as well
onSilentFailClearsAll(w) ==
    _toUnauthenticated([clearAll(w) EXCEPT !.appState.accessToken = NULL])

onSilentFail(w) ==
    _toUnauthenticated([clearSession(w) EXCEPT !.appState.accessToken = NULL])

\* onSignIn up to its first await (fetchUserProfile)
onSignIn(w, token) ==
    Spawn([w EXCEPT !.appState.accessToken = token, !.appState.authStatus = "ready"],
          "onSignIn", "profile", [token |-> token, sheet |-> NULL, x |-> NULL])

\* AppState.reset()
reset(w) ==
    [w EXCEPT !.appState.accessToken = NULL, !.appState.userProfile = NULL,
              !.appState.authStatus = "unauthenticated",
              !.appState.spreadsheetId = NULL, !.appState.expenses = << >>]

\* onSignOut clearing the tab-scoped session only
onSignOutKeepsDurable(w) ==
    LET w1 == [reset(w) EXCEPT !.appState.selectedCat = NULL]
    IN  _enableSignInButton(showToast(showScreen(clearSession(w1), "auth"), "signed_out"))

onSignOut(w) ==
    LET w1 == [reset(w) EXCEPT !.appState.selectedCat = NULL]
    IN  _enableSignInButton(showToast(showScreen(clearAll(w1), "auth"), "signed_out"))

\* _callbacks.<name>(...) as wired by app.js
callback(w, name, arg) ==
    LET w1 == Signal(w, name)
    IN  CASE name = "onReady"      -> onAuthReady(w1)
          [] name = "onSilentFail" -> onSilentFail(w1)
          [] name = "onSignIn"     -> onSignIn(w1, arg)
          [] name = "onSignOut"    -> onSignOut(w1)
          [] OTHER                 -> w1      \* onError: showAuthError(message)


\* --------------------------------------------- authService: provider replies
\* authHelpers.js
isSilentAuthError(err) == err.error = "access_denied" \/ err.type = "popup_closed"

formatAuthError(err) ==
    IF err.message # NULL THEN err.message
    ELSE IF err.error # NULL THEN err.error
    ELSE IF err.type # NULL THEN err.type
    ELSE "{}"

\* clearTimeout on the stored handle only; a timer that already ran is not affected
_clearSilentTimer(w) ==
    IF w.silentRefreshTimer # 0
    THEN [w EXCEPT !.flows[w.silentRefreshTimer].timer =
                        IF @ = "armed" THEN "cleared" ELSE @,
                   !.silentRefreshTimer = 0]
    ELSE w

\* _tokenWaiters.splice(0) and settle each waiter
settleWaiters(w, st, val) ==
    [w EXCEPT !.tokenWaiters = << >>,
              !.callers = [c \in DOMAIN @ |->
                             IF c \in Range(w.tokenWaiters)
                             THEN [st |-> st, val |-> val] ELSE @[c]],
              !.last.settled = @ \cup Range(w.tokenWaiters)]

_handleFailedFlow(w, flowType, errorMessage) ==
    LET w1 == settleWaiters(w, "rejected", errorMessage)
    IN  IF flowType = "silent" THEN callback(w1, "onSilentFail", NULL)
        ELSE callback(w1, "onError", errorMessage)

_onTokenResponse(w, response) ==
    LET w1       == _clearSilentTimer(w)
        flowType == w1.pendingFlowType
        w2       == [w1 EXCEPT !.pendingFlowType = NULL]
    IN  IF response.error # NULL
        THEN _handleFailedFlow(w2, flowType, "OAuth error: " \o response.error)
        ELSE LET expiresAt == w2.now + (response.expires_in - 60) * 1000
                 w3 == [w2 EXCEPT !.accessToken = response.access_token]
                 w4 == [w3 EXCEPT !.sessionStorage =
                            setItem(setItem(@, ACCESS_TOKEN, w3.accessToken),
                                    EXPIRES_AT, expiresAt)]
                 w5 == settleWaiters(w4, "resolved", w4.accessToken)
             IN  callback(w5, "onSignIn", w5.accessToken)

_onTokenError(w, err) ==
    LET w1       == _clearSilentTimer(w)
        flowType == w1.pendingFlowType
        w2       == [w1 EXCEPT !.pendingFlowType = NULL]
    IN  IF isSilentAuthError(err)
        THEN IF flowType = "silent" THEN w2
             ELSE IF err.type = "popup_closed" THEN w2
             ELSE callback(w2, "onError", "Access was denied.")
        ELSE _handleFailedFlow(w2, flowType, "OAuth error: " \o formatAuthError(err))

\* the setTimeout callback armed by silentRefresh
silentRefreshTimeout(w) ==
    IF w.pendingFlowType = "silent"
    THEN callback([w EXCEPT !.pendingFlowType = NULL], "onSilentFail", NULL)
    ELSE w

\* signOut() after the optional await of revokeToken
signOutFinish(w) ==
    LET w1 == [w EXCEPT !.accessToken = NULL, !.pendingFlowType = NULL]
        w2 == [w1 EXCEPT !.sessionStorage =
                   removeItem(removeItem(@, ACCESS_TOKEN), EXPIRES_AT)]
    IN  callback(w2, "onSignOut", NULL)

signOut(w) ==
    IF w.accessToken # NULL
    THEN Spawn(w, "signOut", "revoke", [token |-> w.accessToken, sheet |-> NULL, x |-> NULL])
    ELSE signOutFinish(w)

\* init(): the SDKs arrived (ok) or waitForGoogleSdk / initGapiClient rejected
init(w, ok) ==
    IF ok THEN callback([w EXCEPT !.tokenClient = TRUE, !.initPc = "done"], "onReady", NULL)
    ELSE callback([w EXCEPT !.initPc = "failed"], "onError", "Google SDK did not load")


\* ------------------------------------------------------------- sheetsHelpers
\* A row is [id, date, category, amount, comment]; an empty cell is "" and the
\* amount cell is [t |-> "num", v |-> n] or [t |-> "txt", v |-> text].
headerRow == [id |-> "ID", date |-> "Date", category |-> "Category",
              amount |-> [t |-> "txt", v |-> "Amount"], comment |-> "Comment"]

\* expenseToRow that writes the amount as text with a currency sign
expenseToRowAmountAsText(expense) ==
    [id |-> expense.id, date |-> expense.date, category |-> expense.category,
     amount |-> [t |-> "txt", v |-> "$" \o ToString(expense.amount)],
     comment |-> expense.comment]

expenseToRow(expense) ==
    [id |-> expense.id, date |-> expense.date, category |-> expense.category,
     amount |-> [t |-> "num", v |-> expense.amount], comment |-> expense.comment]

\* a parse that drops the sign of the number
parseFloatOr0Unsigned(cell) ==
    IF cell.t = "num" THEN (IF cell.v < 0 THEN 0 - cell.v ELSE cell.v) ELSE 0

\* parseFloat(cell) || 0 : text that is no number gives NaN, which is falsy
parseFloatOr0(cell) == IF cell.t = "num" THEN cell.v ELSE 0

uuid(n) == "u" \o ToString(n)

\* rowToExpense with the uuid() it would draw given as freshId; NULL when dropped
rowToExpense(row, freshId) ==
    LET amount == parseFloatOr0(row.amount)
    IN  IF amount <= 0 THEN NULL
        ELSE [id       |-> IF row.id # "" THEN row.id ELSE freshId,
              date     |-> row.date,
              category |-> IF row.category # "" THEN row.category ELSE "other",
              amount   |-> amount,
              comment  |-> row.comment]

\* filter(Boolean): the rows rowToExpense maps to null
isNull(row) == parseFloatOr0(row.amount) <= 0

\* rows that draw a uuid() among the first i rows
uuidDraws(rows, i) ==
    Cardinality({ j \in 1 .. i : parseFloatOr0(rows[j].amount) > 0 /\ rows[j].id = "" })

RECURSIVE keepExpenses(_, _, _)
keepExpenses(rows, i, count) ==
    IF i > Len(rows) THEN << >>
    ELSE (IF isNull(rows[i]) THEN << >>
          ELSE << rowToExpense(rows[i], uuid(count + uuidDraws(rows, i))) >>)
         \o keepExpenses(rows, i + 1, count)

\* (rows || []).map(rowToExpense).filter(Boolean), count uuid() values drawn before
rowsToExpenses(rows, count) == keepExpenses(rows, 1, count)

\* buildDeleteRowRequest with a range that is not corrected for the header row
buildDeleteRowRequestNoHeader(numericSheetId, zeroBasedIndex) ==
    [sheetId |-> numericSheetId, dimension |-> "ROWS",
     startIndex |-> zeroBasedIndex - 1, endIndex |-> zeroBasedIndex]

buildDeleteRowRequest(numericSheetId, zeroBasedIndex) ==
    [sheetId |-> numericSheetId, dimension |-> "ROWS",
     startIndex |-> zeroBasedIndex, endIndex |-> zeroBasedIndex + 1]

\* idColumn: the ids of rows 2.. ; findIndex gives the first match, -1 when none
\* findRowIndex without the early return for "not found"
findRowIndexNoGuard(idColumn, expenseId) ==
    LET hits == { i \in 1 .. Len(idColumn) : idColumn[i] = expenseId }
        offset == IF hits = {} THEN -1
                  ELSE (CHOOSE i \in hits : \A j \in hits : i <= j) - 1
    IN  offset + 1

findRowIndex(idColumn, expenseId) ==
    LET hits == { i \in 1 .. Len(idColumn) : idColumn[i] = expenseId }
    IN  IF hits = {} THEN -1
        ELSE LET offset == (CHOOSE i \in hits : \A j \in hits : i <= j) - 1
             IN  offset + 1

\* -------------------------------------------------------- the remote store
\* remote.files: the spreadsheets of the account, each
\* [id, title, trashed, numericSheetId, rows], rows[1] being sheet row 0.
LastWindowRow == 1000       \* the read window A2:E1000 / A2:A1000

fileIndex(w, spreadsheetId) ==
    LET hits == { i \in 1 .. Len(w.remote.files) : w.remote.files[i].id = spreadsheetId }
    IN  IF hits = {} THEN 0 ELSE CHOOSE i \in hits : TRUE

Min(a, b) == IF a <= b THEN a ELSE b

\* GET values/A2:E1000
readRows(w, spreadsheetId) ==
    LET rows == w.remote.files[fileIndex(w, spreadsheetId)].rows
    IN  SubSeq(rows, 2, Min(Len(rows), LastWindowRow))

\* GET values/A2:A1000
readIdColumn(w, spreadsheetId) ==
    LET rows == readRows(w, spreadsheetId)
    IN  [i \in 1 .. Len(rows) |-> rows[i].id]

\* POST values/A:E:append
appendRow(w, spreadsheetId, row) ==
    [w EXCEPT !.remote.files[fileIndex(w, spreadsheetId)].rows = Append(@, row)]

\* POST :batchUpdate deleteDimension ROWS [startIndex, endIndex)
deleteDimension(w, spreadsheetId, request) ==
    [w EXCEPT !.remote.files[fileIndex(w, spreadsheetId)].rows =
        SubSeq(@, 1, Min(Len(@), request.startIndex))
        \o SubSeq(@, request.endIndex + 1, Len(@))]

\* googleClient _unwrap: the Error a failed reply is turned into
unwrapError(res) ==
    IF truthy(res.message) THEN res.message ELSE "HTTP " \o ToString(res.status)

\* String.prototype.includes on the messages unwrapError can build from
\* FailedReplies: only the "HTTP <status>" messages contain a status code
includes(message, code) == message = "HTTP " \o code

FailedReplies ==
    { [status |-> 401, message |-> NULL],
      [status |-> 403, message |-> NULL],
      [status |-> 500, message |-> NULL],
      [status |-> 401, message |-> "Request had invalid authentication credentials."] }


\* --------------------------------------------- sheetsService / expenseController
SPREADSHEET_TITLE == "SpenGo"

\* what a suspended call keeps in its closure
Arg(token, sheet, x) == [token |-> token, sheet |-> sheet, x |-> x]

_handleInitError(w) == showScreen(showToast(w, "error"), "auth")

\* refreshDataInBackground up to its await of loadExpenses
refreshDataInBackground(w) ==
    IF ~truthy(w.appState.accessToken) THEN w
    ELSE Spawn(w, "refresh", "load",
               Arg(w.appState.accessToken, w.appState.spreadsheetId, NULL))

\* sheetsService loadExpenses answered: the records read, and the state it
\* leaves (the uuid() values drawn); caching is left to the caller
loadExpenses(w, spreadsheetId) ==
    LET rows == readRows(w, spreadsheetId)
    IN  [w        |-> [w EXCEPT !.uuidCount = @ + uuidDraws(rows, Len(rows))],
         expenses |-> rowsToExpenses(rows, w.uuidCount)]

\* the loadExpenses of services/sheetsService.js, which also writes the cache
\* key itself
loadExpensesDirect(w, spreadsheetId) ==
    LET loaded == loadExpenses(w, spreadsheetId)
    IN  [w        |-> [loaded.w EXCEPT !.localStorage =
                          setItem(@, EXPENSES, JSONstringify(loaded.expenses))],
         expenses |-> loaded.expenses]

\* loadExpenses settled: reply.ok, else the failed response
refreshLoaded(w, arg, reply) ==
    IF reply.ok
    THEN LET loaded   == loadExpenses(w, arg.sheet)
             expenses == loaded.expenses
             w1 == [loaded.w EXCEPT !.appState.expenses = expenses]
             w2 == saveExpenses(w1, expenses)
         IN  IF w2.appState.currentScreen \in {"setup", "auth"}
             THEN showScreen(w2, "main") ELSE w2
    ELSE LET message     == unwrapError(reply)
             isAuthError == includes(message, "401") \/ includes(message, "403")
         IN  IF isAuthError
             THEN silentRefresh([clearSession(w) EXCEPT !.appState.accessToken = NULL])
             ELSE w

\* _loadAndCacheExpenses up to its await
_loadAndCacheExpenses(w) ==
    Spawn(w, "init", "load", Arg(w.appState.accessToken, w.appState.spreadsheetId, NULL))

\* _resolveAndSaveSpreadsheet after resolveSpreadsheet returned, then the load
resolved(w, spreadsheetId) ==
    _loadAndCacheExpenses(
        saveSheetId([w EXCEPT !.appState.spreadsheetId = spreadsheetId], spreadsheetId))

\* initSpreadsheet -> resolveSpreadsheet up to its first await
initSpreadsheet(w) ==
    LET spreadsheetId == getSheetId(w)
    IN  IF truthy(spreadsheetId)
        THEN Spawn(w, "init", "verify", Arg(w.appState.accessToken, spreadsheetId, NULL))
        ELSE Spawn(w, "init", "search", Arg(w.appState.accessToken, NULL, NULL))

\* verifySpreadsheet settled (the page never gets here: whenever the stored
\* sheet id is set, STATE.spreadsheetId is too and onSignIn refreshes instead)
verified(w, arg, ok) ==
    IF ok THEN resolved(w, arg.sheet)
    ELSE Spawn(saveSheetId(w, ""), "init", "search", Arg(arg.token, NULL, NULL))

\* findExistingSpreadsheet settled: found is a file id, or NULL (none, or the
\* search failed)
searched(w, arg, found) ==
    IF truthy(found) THEN resolved(saveSheetId(w, found), found)
    ELSE Spawn(w, "init", "create", Arg(arg.token, NULL, NULL))

newFileId(w) == "S" \o ToString(Len(w.remote.files) + 1)

\* a resolution that stores the id of the new file as soon as the POST returned
createdStoresId(w, arg, ok) ==
    IF ok
    THEN LET id == newFileId(w)
             w1 == [w EXCEPT !.remote.files =
                        Append(@, [id |-> id, title |-> SPREADSHEET_TITLE,
                                   trashed |-> FALSE,
                                   numericSheetId |-> Len(w.remote.files) + 1,
                                   rows |-> << >>])]
         IN  Spawn(saveSheetId(w1, id), "init", "header", Arg(arg.token, id, NULL))
    ELSE _handleInitError(w)

\* createSpreadsheet: the POST settled
created(w, arg, ok) ==
    IF ok
    THEN LET id == newFileId(w)
             w1 == [w EXCEPT !.remote.files =
                        Append(@, [id |-> id, title |-> SPREADSHEET_TITLE,
                                   trashed |-> FALSE,
                                   numericSheetId |-> Len(w.remote.files) + 1,
                                   rows |-> << >>])]
         IN  Spawn(w1, "init", "header", Arg(arg.token, id, NULL))
    ELSE _handleInitError(w)

\* createSpreadsheet: the PUT of the header row settled
headerWritten(w, arg, ok) ==
    IF ok
    THEN LET w1 == [w EXCEPT !.remote.files[fileIndex(w, arg.sheet)].rows =
                        << headerRow >> \o (IF @ = << >> THEN << >> ELSE Tail(@))]
         IN  resolved(saveSheetId(w1, arg.sheet), arg.sheet)
    ELSE _handleInitError(w)

\* _loadAndCacheExpenses settled, rest of initSpreadsheet
initLoaded(w, arg, reply) ==
    IF reply.ok
    THEN LET loaded   == loadExpenses(w, arg.sheet)
             expenses == loaded.expenses
             w1 == [loaded.w EXCEPT !.appState.expenses = expenses]
         IN  showScreen(saveExpenses(w1, expenses), "main")
    ELSE _handleInitError(w)

\* the refreshDataInBackground of controllers/expenseController.js after its
\* loadExpenses settled; of the messages unwrapError builds, "HTTP 401" and
\* the credentials message contain '401' or 'auth'
refreshLoadedDirect(w, arg, reply) ==
    IF reply.ok
    THEN LET loaded == loadExpensesDirect(w, arg.sheet)
             w1 == [loaded.w EXCEPT !.appState.expenses = loaded.expenses]
             w2 == saveExpenses(w1, loaded.expenses)
         IN  IF w2.appState.currentScreen = "setup" THEN showScreen(w2, "main") ELSE w2
    ELSE LET message     == unwrapError(reply)
             isAuthError == includes(message, "401") \/ truthy(reply.message)
         IN  IF isAuthError THEN showScreen(showToast(w, "auth_error"), "auth")
             ELSE w

\* onSignIn that resolves the spreadsheet whatever STATE.spreadsheetId holds
onSignInProfileAlwaysResolves(w, arg, profile) ==
    LET w1 == IF profile # NULL
              THEN saveLoginHint([w EXCEPT !.appState.userProfile = profile], profile)
              ELSE w
    IN  initSpreadsheet(showScreen(w1, "setup"))

\* onSignIn after fetchUserProfile settled: profile is the e-mail, or NULL
onSignInProfile(w, arg, profile) ==
    LET w1 == IF profile # NULL
              THEN saveLoginHint([w EXCEPT !.appState.userProfile = profile], profile)
              ELSE w
    IN  IF truthy(w1.appState.spreadsheetId) THEN refreshDataInBackground(w1)
        ELSE initSpreadsheet(showScreen(w1, "setup"))

todayStr == "today"

withoutId(expenses, id) == SelectSeq(expenses, LAMBDA e : e.id # id)
ids(expenses) == { expenses[i].id : i \in DOMAIN expenses }

\* submitExpense that skips both validations
submitExpenseNoValidation(w, amount, comment) ==
    LET expense == [id |-> uuid(w.uuidCount + 1), date |-> todayStr,
                    category |-> w.appState.selectedCat, amount |-> amount,
                    comment |-> comment]
    IN  Spawn([w EXCEPT !.uuidCount = @ + 1], "submit", "append",
              Arg(w.appState.accessToken, w.appState.spreadsheetId, expense))

\* submitExpense up to its await of appendExpense; amount is the parsed input
\* (0 stands for an input that parses to 0 or NaN)
submitExpense(w, amount, comment) ==
    IF amount <= 0 THEN showToast(w, "enter_amount")
    ELSE IF ~truthy(w.appState.selectedCat) THEN showToast(w, "select_cat")
    ELSE LET expense == [id |-> uuid(w.uuidCount + 1), date |-> todayStr,
                         category |-> w.appState.selectedCat, amount |-> amount,
                         comment |-> comment]
         IN  Spawn([w EXCEPT !.uuidCount = @ + 1], "submit", "append",
                   Arg(w.appState.accessToken, w.appState.spreadsheetId, expense))

\* submitExpense/appended writing the cache whatever the append returned
appendedOptimistic(w, arg, ok) ==
    LET w1 == IF ok THEN appendRow(w, arg.sheet, expenseToRow(arg.x)) ELSE w
        w2 == [w1 EXCEPT !.appState.expenses = Append(@, arg.x)]
    IN  showToast(saveExpenses(w2, w2.appState.expenses),
                  IF ok THEN "added" ELSE "error_prefix")

\* appendExpense settled, rest of submitExpense
appended(w, arg, ok) ==
    IF ok
    THEN LET w1 == appendRow(w, arg.sheet, expenseToRow(arg.x))
             w2 == [w1 EXCEPT !.appState.expenses = Append(@, arg.x)]
         IN  showToast(saveExpenses(w2, w2.appState.expenses), "added")
    ELSE showToast(w, "error_prefix")

\* removeExpenseRow up to its await of Promise.all: the closure keeps the
\* expense id and the cached numeric sheet id
removeExpenseRow(w, type, spreadsheetId, expenseId) ==
    Spawn(w, type, "reads",
          [token |-> w.appState.accessToken, sheet |-> spreadsheetId,
           x |-> expenseId, cached |-> getNumericSheetId(w)])

\* expenseController.js deleteExpense after _animateRemoval: cache first, then
\* the remote delete
deleteExpenseLocalFirstCommit(w, id) ==
    LET w1 == [w EXCEPT !.appState.expenses = withoutId(@, id)]
        w2 == saveExpenses(w1, w1.appState.expenses)
    IN  removeExpenseRow(w2, "deleteLocalFirst", w2.appState.spreadsheetId, id)

\* expenseController.js deleteExpense: awaits the 250 ms animation when the
\* record is on the page
deleteExpenseLocalFirst(w, id) ==
    IF id \in ids(w.appState.expenses)
    THEN Spawn(w, "deleteLocalFirst", "sleep", Arg(NULL, NULL, id))
    ELSE deleteExpenseLocalFirstCommit(w, id)

\* part_004 deleteExpense: the animation is not awaited, the remote delete first
deleteExpenseRemoteFirst(w, id) ==
    removeExpenseRow(w, "deleteRemoteFirst", w.appState.spreadsheetId, id)

\* deleteExpense after SheetsService.deleteExpense settled
deleteExpenseSettled(w, task, ok) ==
    IF task.type = "deleteLocalFirst"
    THEN showToast(w, IF ok THEN "deleted" ELSE "delete_error")
    ELSE IF ok
         THEN LET w1 == [w EXCEPT !.appState.expenses = withoutId(@, task.arg.x)]
              IN  showToast(saveExpenses(w1, w1.appState.expenses), "deleted")
         ELSE showToast(w, "delete_error")

\* removeExpenseRow after Promise.all settled: ok is FALSE when a request failed
removeExpenseRowRead(w, task, ok) ==
    IF ~ok THEN deleteExpenseSettled(w, task, FALSE)
    ELSE LET arg      == task.arg
             rowIndex == findRowIndex(readIdColumn(w, arg.sheet), arg.x)
         IN  IF rowIndex = -1 THEN deleteExpenseSettled(w, task, TRUE)
             ELSE LET numericSheetId ==
                          IF arg.cached.has THEN arg.cached.v
                          ELSE w.remote.files[fileIndex(w, arg.sheet)].numericSheetId
                      w1 == IF ~arg.cached.has
                            THEN saveNumericSheetId(w, numericSheetId) ELSE w
                  IN  Spawn(w1, task.type, "batch",
                            [token |-> arg.token, sheet |-> arg.sheet, x |-> arg.x,
                             request |-> buildDeleteRowRequest(numericSheetId, rowIndex)])

\* removeExpenseRow after the batchUpdate settled
removeExpenseRowPosted(w, task, ok) ==
    IF ok THEN deleteExpenseSettled(
                   deleteDimension(w, task.arg.sheet, task.arg.request), task, TRUE)
    ELSE deleteExpenseSettled(w, task, FALSE)

\* ------------------------------------------------------------ initial states
MaxFiles == 2       \* spreadsheets in the account
MaxUuid  == 2       \* uuid() values drawn in one run

sampleExpense == [id |-> "e1", date |-> "2026-01-01", category |-> "food",
                  amount |-> 12, comment |-> ""]

otherExpense == [id |-> "e2", date |-> "2026-01-02", category |-> "home",
                 amount |-> 30, comment |-> "rent"]

\* the sheet after two records were appended (RAW values)
sampleRows == << headerRow, expenseToRow(sampleExpense), expenseToRow(otherExpense) >>

sampleRemote ==
    [files |-> << [id |-> "S1", title |-> SPREADSHEET_TITLE, trashed |-> FALSE,
                   numericSheetId |-> 1, rows |-> sampleRows] >>]

\* what earlier runs of the app left in durable storage
DurableStores ==
    { EmptyStore,
      setItem(EmptyStore, SHEET_ID, "S1"),
      setItem(setItem(EmptyStore, SHEET_ID, "S1"), LOGIN_HINT, "u@x"),
      setItem(setItem(setItem(setItem(EmptyStore, SHEET_ID, "S1"), LOGIN_HINT, "u@x"),
                      EXPENSES, JSONstringify(<< sampleExpense >>)), NUMERIC_SHEET_ID, 1) }

\* what this tab kept across a reload: nothing, or a session saved at an
\* earlier instant, still valid or already expired
TabStores ==
    { EmptyStore,
      setItem(setItem(EmptyStore, ACCESS_TOKEN, "tok0"), EXPIRES_AT, SILENT_REFRESH_TIMEOUT_MS),
      setItem(setItem(EmptyStore, ACCESS_TOKEN, "tok0"), EXPIRES_AT, 0 - 1) }

\* restoreCachedExpenses (run by app.js before AuthService.init)
restoreCachedExpenses(store) ==
    IF ~hasItem(store, SHEET_ID) \/ ~truthy(store[SHEET_ID]) THEN << >>
    ELSE IF Len(getExpensesValue(store).v) > 0 THEN getExpensesValue(store).v
    ELSE << >>

\* the page after the synchronous part of DOMContentLoaded, AuthService.init
\* awaiting the SDKs
InitCommon ==
    /\ tokenClient = FALSE
    /\ initPc = "loading"
    /\ accessToken = NULL
    /\ pendingFlowType = NULL
    /\ silentRefreshTimer = 0
    /\ tokenWaiters = << >>
    /\ now = 0
    /\ flows = << >>
    /\ callers = [c \in Callers |-> [st |-> "idle", val |-> NULL]]
    /\ tasks = << >>
    /\ remote = sampleRemote
    /\ uuidCount = 0
    /\ dom = [btnGoogleDisabled |-> TRUE]
    /\ last = [op |-> "load", flow |-> 0, detail |-> NULL, sigs |-> << >>,
               settled |-> {}, toast |-> NULL, burst |-> NoBurst]

Init ==
    /\ InitCommon
    /\ sessionStorage \in TabStores
    /\ localStorage \in DurableStores
    /\ appState = [accessToken |-> NULL, userProfile |-> NULL, authStatus |-> "unknown",
                   spreadsheetId |-> NULL,
                   expenses |-> restoreCachedExpenses(localStorage),
                   currentScreen |-> "auth", selectedCat |-> NULL]

\* ------------------------------------------------------------------ actions
Within(w) ==
    /\ Len(w.flows) <= MaxFlows
    /\ Len(w.tasks) <= MaxTasks
    /\ Len(w.remote.files) <= MaxFiles
    /\ w.uuidCount <= MaxUuid

Do(w) == Within(w) /\ Commit(w)

\* a handler run as its own task of the run-loop
Run(op, flow, detail) == Begin(World, op, flow, detail)

\* the continuation of suspended call i
Resume(i, op, detail) ==
    Begin([World EXCEPT !.tasks = RemoveAt(@, i)], op, 0, detail)

\* AuthService.init settles: the SDKs arrived, or the wait timed out
AuthInit ==
    /\ initPc = "loading"
    /\ \E ok \in BOOLEAN : Do(init(Run("init", 0, NULL), ok))

\* signIn() (the click on #btn-google)
SignIn == \E w \in {signIn(Run("signIn", Len(flows) + 1, NULL))} : Do(w)

\* signOut()
SignOut == \E w \in {signOut(Run("signOut", 0, NULL))} : Do(w)

\* revokeToken settled: the token was revoked, the endpoint answered with an
\* HTTP error (fetch resolves all the same), or the request failed and the
\* rejection was swallowed
RevokeSettled ==
    \E i \in DOMAIN tasks :
        /\ tasks[i].type = "signOut"
        /\ \E outcome \in {"revoked", "http_error", "network_error"} :
              Do(signOutFinish(Resume(i, "signOutFinish", outcome)))

\* waitForToken() by a new caller; last.burst counts the calls made back to
\* back that were queued, and the flows they started
WaitForToken ==
    \E c \in Callers :
        /\ callers[c].st = "idle"
        /\ \A d \in Callers : d < c => callers[d].st # "idle"
        /\ LET w1     == waitForToken(Run("waitForToken", 0, NULL), c)
               queued == w1.callers[c].st = "pending"
               more   == last.op = "waitForToken" /\ last.burst.n > 0
               burst  == IF ~queued THEN NoBurst
                         ELSE [n       |-> (IF more THEN last.burst.n ELSE 0) + 1,
                               started |-> (IF more THEN last.burst.started ELSE 0)
                                           + (Len(w1.flows) - Len(flows)),
                               prior   |-> IF more THEN last.burst.prior
                                           ELSE pendingFlowType = "silent"]
           IN  Do([w1 EXCEPT !.last.burst = burst])

TokenResponses(f) ==
    { [error |-> NULL, access_token |-> "tok" \o ToString(f), expires_in |-> 65],
      [error |-> "interaction_required", access_token |-> NULL, expires_in |-> 0] }

TokenErrors ==
    { [type |-> "popup_closed", error |-> NULL, message |-> NULL],
      [type |-> "popup_failed_to_open", error |-> NULL, message |-> NULL],
      [type |-> NULL, error |-> "access_denied", message |-> NULL] }

\* the provider answers flow f on the success channel (callback)
TokenResponse ==
    \E f \in DOMAIN flows :
        /\ ~flows[f].answered
        /\ \E response \in TokenResponses(f) :
              LET w0 == Run("response", f, IF response.error = NULL THEN "token" ELSE "error")
              IN  Do(_onTokenResponse([w0 EXCEPT !.flows[f].answered = TRUE], response))

\* the provider answers flow f on the error channel (error_callback)
TokenError ==
    \E f \in DOMAIN flows :
        /\ ~flows[f].answered
        /\ \E err \in TokenErrors :
              LET w0 == Run("error", f, IF isSilentAuthError(err) THEN "benign" ELSE "genuine")
              IN  Do(_onTokenError([w0 EXCEPT !.flows[f].answered = TRUE], err))

\* the fallback timer armed with flow f runs
TimerFires ==
    \E f \in DOMAIN flows :
        /\ flows[f].timer = "armed"
        /\ now >= flows[f].due
        /\ LET w0 == Run("timer", f, IF flows[f].answered THEN "late" ELSE "first")
           IN  Do(silentRefreshTimeout([w0 EXCEPT !.flows[f].timer = "fired"]))

\* time passes
Tick ==
    /\ now < MaxTicks * SILENT_REFRESH_TIMEOUT_MS
    /\ Do([Run("tick", 0, NULL) EXCEPT !.now = @ + SILENT_REFRESH_TIMEOUT_MS])

\* fetchUserProfile settled: the profile's e-mail, or nothing
ProfileSettled ==
    \E i \in DOMAIN tasks :
        /\ tasks[i].type = "onSignIn"
        /\ \E profile \in {"u@x", NULL} :
              Do(onSignInProfile(Resume(i, "onSignInProfile", NULL), tasks[i].arg, profile))

Replies(sheet) ==
    (IF fileIndex(World, sheet) # 0 THEN {[ok |-> TRUE, status |-> 200, message |-> NULL]}
     ELSE {})
    \cup { [ok |-> FALSE, status |-> r.status, message |-> r.message] : r \in FailedReplies }

\* loadExpenses of refreshDataInBackground settled; last.detail is the HTTP
\* status of the reply
RefreshSettled ==
    \E i \in DOMAIN tasks :
        /\ tasks[i].type = "refresh" /\ tasks[i].pc = "load"
        /\ \E reply \in Replies(tasks[i].arg.sheet) :
              Do(refreshLoaded(Resume(i, "refreshLoaded", ToString(reply.status)),
                               tasks[i].arg, reply))

alive(sheet) ==
    fileIndex(World, sheet) # 0 /\ ~remote.files[fileIndex(World, sheet)].trashed

\* the files the Drive query of findExistingSpreadsheet matches
liveStores ==
    { remote.files[k].id : k \in
        { j \in DOMAIN remote.files :
            remote.files[j].title = SPREADSHEET_TITLE /\ ~remote.files[j].trashed } }

\* findExistingSpreadsheet: the Drive search answered with one matching file
\* (pageSize=1), or with no file
SearchSettled ==
    \E i \in DOMAIN tasks :
        /\ tasks[i].type = "init" /\ tasks[i].pc = "search"
        /\ \E found \in (IF liveStores = {} THEN {NULL} ELSE liveStores) :
              Do(searched(Resume(i, "searched", found), tasks[i].arg, found))

\* findExistingSpreadsheet: the Drive search failed; the error is caught and
\* null is returned
SearchFailed ==
    \E i \in DOMAIN tasks :
        /\ tasks[i].type = "init" /\ tasks[i].pc = "search"
        /\ Do(searched(Resume(i, "searchFailed", NULL), tasks[i].arg, NULL))

\* createSpreadsheet: the POST settled
CreateSettled ==
    \E i \in DOMAIN tasks :
        /\ tasks[i].type = "init" /\ tasks[i].pc = "create"
        /\ \E ok \in BOOLEAN :
              Do(created(Resume(i, "created", NULL), tasks[i].arg, ok))

\* createSpreadsheet: the PUT of the header settled
HeaderSettled ==
    \E i \in DOMAIN tasks :
        /\ tasks[i].type = "init" /\ tasks[i].pc = "header"
        /\ \E ok \in BOOLEAN :
              Do(headerWritten(Resume(i, "headerWritten", IF ok THEN "written" ELSE "failed"),
                               tasks[i].arg, ok))

\* loadExpenses of initSpreadsheet settled
InitLoadSettled ==
    \E i \in DOMAIN tasks :
        /\ tasks[i].type = "init" /\ tasks[i].pc = "load"
        /\ \E reply \in Replies(tasks[i].arg.sheet) :
              Do(initLoaded(Resume(i, "initLoaded", NULL), tasks[i].arg, reply))

\* ------------------------------------------- specification: token lifecycle
\* The token manager with the auth controller wired to it, from page load on;
\* the Drive lookups of initSpreadsheet are followed in SpecSetup.
NextAuth ==
    \/ AuthInit
    \/ SignIn
    \/ SignOut
    \/ RevokeSettled
    \/ WaitForToken
    \/ TokenResponse
    \/ TokenError
    \/ TimerFires
    \/ Tick
    \/ ProfileSettled
    \/ RefreshSettled

SpecAuth == Init /\ [][NextAuth]_vars

\* ------------------------------------------------ specification: first sign-in
\* Page load, sign-in and the resolution of the spreadsheet that follows it.
\* The account holds the spreadsheet of an earlier session, or none yet.
InitSetup ==
    /\ tokenClient = FALSE
    /\ initPc = "loading"
    /\ accessToken = NULL
    /\ pendingFlowType = NULL
    /\ silentRefreshTimer = 0
    /\ tokenWaiters = << >>
    /\ now = 0
    /\ flows = << >>
    /\ callers = [c \in Callers |-> [st |-> "idle", val |-> NULL]]
    /\ tasks = << >>
    /\ remote \in {[files |-> << >>], sampleRemote}
    /\ uuidCount = 0
    /\ dom = [btnGoogleDisabled |-> TRUE]
    /\ last = [op |-> "load", flow |-> 0, detail |-> NULL, sigs |-> << >>,
               settled |-> {}, toast |-> NULL, burst |-> NoBurst]
    /\ sessionStorage \in TabStores
    /\ localStorage \in DurableStores
    /\ appState = [accessToken |-> NULL, userProfile |-> NULL, authStatus |-> "unknown",
                   spreadsheetId |-> NULL,
                   expenses |-> restoreCachedExpenses(localStorage),
                   currentScreen |-> "auth", selectedCat |-> NULL]

\* every request of the resolution answered by the server
NextResolve ==
    \/ AuthInit
    \/ SignIn
    \/ TokenResponse
    \/ ProfileSettled
    \/ RefreshSettled
    \/ SearchSettled
    \/ CreateSettled
    \/ HeaderSettled
    \/ InitLoadSettled

SpecResolve == InitSetup /\ [][NextResolve]_vars

\* ... and the Drive search may fail as well
NextSetup ==
    \/ NextResolve
    \/ SearchFailed

SpecSetup == InitSetup /\ [][NextSetup]_vars

\* ------------------------------------------------- token lifecycle: claims
silentInFlight ==
    { f \in DOMAIN flows :
        flows[f].kind = "silent" /\ ~flows[f].answered /\ flows[f].timer # "fired" }

count(sigs, name) == Cardinality({ i \in DOMAIN sigs : sigs[i] = name })

\* the step just taken concluded flow last.flow: a channel delivered its reply,
\* or its fallback timer ran before any reply
concluded ==
    \/ last.op \in {"response", "error"}
    \/ last.op = "timer" /\ last.detail = "first"

C2_WaitersSettledAtConclusion ==
    (concluded /\ flows[last.flow].kind = "silent") => tokenWaiters = << >>

\* C3: at most one silent-refresh flow is in flight in every reachable state.
C3_OneSilentFlowInFlight == Cardinality(silentInFlight) <= 1

\* C4: a fallback timer that runs before either channel fired emits the
\* silent-failure signal exactly once; once a channel fired for a flow, the
\* timer armed with that flow is cancelled and emits nothing.
C4_TimerEmitsOrIsCancelled ==
    /\ (last.op = "timer" /\ last.detail = "first") => last.sigs = << "onSilentFail" >>
    /\ \A f \in DOMAIN flows : flows[f].answered => flows[f].timer # "armed"
    /\ (last.op = "timer" /\ last.detail = "late") => last.sigs = << >>

\* C5: no outcome of a flow started by silentRefresh() emits onError.
C5_SilentFlowNeverVisibleError ==
    (last.op \in {"response", "error", "timer"} /\ flows[last.flow].kind = "silent")
        => count(last.sigs, "onError") = 0

\* C6: a terminal, non-benign error of a flow started by signIn() is emitted
\* as onError and never as onSilentFail.
C6_InteractiveErrorIsVisible ==
    (/\ last.op \in {"response", "error"}
     /\ last.detail \in {"error", "genuine"}
     /\ flows[last.flow].kind = "interactive")
        => count(last.sigs, "onError") = 1 /\ count(last.sigs, "onSilentFail") = 0

\* C7: the status `restoring` set at startup lasts only while a silent flow is
\* still open (unanswered, its fallback timer armed): once the provider
\* answered, in whichever way, or the timer ran, the status is `ready` or
\* `unauthenticated`.
C7_RestoringIsLeft ==
    appState.authStatus = "restoring" =>
        \E f \in DOMAIN flows :
            flows[f].kind = "silent" /\ ~flows[f].answered /\ flows[f].timer = "armed"

\* ------------------------------------------------ specification: the records
\* A signed-in page: the state SpecAuth reaches when startup found the sheet id,
\* the silent refresh succeeded, the profile arrived and the background
\* refresh loaded the sheet. The numeric sheet id is cached when an earlier
\* session deleted a record.
sessionReady ==
    setItem(setItem(EmptyStore, ACCESS_TOKEN, "tok1"), EXPIRES_AT, SILENT_REFRESH_TIMEOUT_MS)

durableReady ==
    setItem(setItem(setItem(EmptyStore, SHEET_ID, "S1"), LOGIN_HINT, "u@x"),
            EXPENSES, JSONstringify(<< sampleExpense, otherExpense >>))

InitSync ==
    /\ tokenClient = TRUE
    /\ initPc = "done"
    /\ accessToken = "tok1"
    /\ pendingFlowType = NULL
    /\ silentRefreshTimer = 0
    /\ tokenWaiters = << >>
    /\ sessionStorage = sessionReady
    /\ localStorage \in {durableReady, setItem(durableReady, NUMERIC_SHEET_ID, 1)}
    /\ appState = [accessToken |-> "tok1", userProfile |-> "u@x", authStatus |-> "ready",
                   spreadsheetId |-> "S1",
                   expenses |-> << sampleExpense, otherExpense >>,
                   currentScreen |-> "main", selectedCat |-> NULL]
    /\ now = 0
    /\ flows = << [kind |-> "silent", hint |-> "u@x", answered |-> TRUE,
                   timer |-> "cleared", due |-> SILENT_REFRESH_TIMEOUT_MS] >>
    /\ callers = [c \in Callers |-> [st |-> "idle", val |-> NULL]]
    /\ tasks = << >>
    /\ remote = sampleRemote
    /\ uuidCount = 0
    /\ dom = [btnGoogleDisabled |-> TRUE]
    /\ last = [op |-> "refreshLoaded", flow |-> 0, detail |-> NULL, sigs |-> << >>,
               settled |-> {}, toast |-> NULL, burst |-> NoBurst]

\* openAddModal(): the add dialog opens with the category preset
openAddModal(w) == [w EXCEPT !.appState.selectedCat = "food"]

OpenAddModal ==
    /\ appState.selectedCat = NULL
    /\ Do(openAddModal(Run("openAddModal", 0, NULL)))

\* what #input-amount may hold: nothing, text that is no number, numbers
amountTexts == {"", "abc", "-3", "0", "7"}

\* parseFloat of the field; NaN is given as 0 (`!amount` rejects both alike)
parseFloatText(text) ==
    CASE text = "7" -> 7 [] text = "-3" -> 0 - 3 [] OTHER -> 0

\* submitExpense(): last.detail keeps the text of the amount field
SubmitExpense ==
    \E text \in amountTexts :
        Do(submitExpense(Run("submitExpense", 0, text), parseFloatText(text), "tea"))

\* appendExpense settled
AppendSettled ==
    \E i \in DOMAIN tasks :
        /\ tasks[i].type = "submit"
        /\ \E ok \in {alive(tasks[i].arg.sheet), FALSE} :
              Do(appended(Resume(i, "appended", tasks[i].arg.x.id), tasks[i].arg, ok))

\* the delete button of a listed record (expenseController.js deleteExpense)
DeleteExpenseLocalFirst ==
    \E id \in ids(appState.expenses) :
        Do(deleteExpenseLocalFirst(Run("deleteExpense", 0, id), id))

\* sleep(250) of _animateRemoval is over
AnimationDone ==
    \E i \in DOMAIN tasks :
        /\ tasks[i].pc = "sleep"
        /\ Do(deleteExpenseLocalFirstCommit(Resume(i, "deleteExpenseCommit", tasks[i].arg.x),
                                            tasks[i].arg.x))

\* the delete button of a listed record (part_004 deleteExpense)
DeleteExpenseRemoteFirst ==
    \E id \in ids(appState.expenses) :
        Do(deleteExpenseRemoteFirst(Run("deleteExpense", 0, id), id))

isDelete(t) == t.type \in {"deleteLocalFirst", "deleteRemoteFirst"}

\* Promise.all of removeExpenseRow settled: both reads answered, or one failed.
\* last.op tells whether the id column read then holds the id
ReadsSettled ==
    \E i \in DOMAIN tasks :
        /\ isDelete(tasks[i]) /\ tasks[i].pc = "reads"
        /\ \E ok \in {alive(tasks[i].arg.sheet), FALSE} :
              LET id == tasks[i].arg.x
                  op == IF ~ok THEN "removeExpenseRowFailed"
                        ELSE IF id \in Range(readIdColumn(World, tasks[i].arg.sheet))
                        THEN "removeExpenseRowFound"
                        ELSE "removeExpenseRowAbsent"
              IN  Do(removeExpenseRowRead(Resume(i, op, id), tasks[i], ok))

\* the batchUpdate settled: applied by the server (the request names the
\* sheet's numeric id), or failed
BatchSettled ==
    \E i \in DOMAIN tasks :
        /\ isDelete(tasks[i]) /\ tasks[i].pc = "batch"
        /\ \E ok \in {/\ alive(tasks[i].arg.sheet)
                      /\ tasks[i].arg.request.sheetId
                            = remote.files[fileIndex(World, tasks[i].arg.sheet)].numericSheetId,
                      FALSE} :
              Do(removeExpenseRowPosted(Resume(i, "removeExpenseRowPosted", tasks[i].arg.x),
                                        tasks[i], ok))

\* The two versions of deleteExpense found in the repository are both offered.
NextSync ==
    \/ OpenAddModal
    \/ SubmitExpense
    \/ AppendSettled
    \/ DeleteExpenseLocalFirst
    \/ AnimationDone
    \/ DeleteExpenseRemoteFirst
    \/ ReadsSettled
    \/ BatchSettled

SpecSync == InitSync /\ [][NextSync]_vars

\* ---------------------------------------------------------- records: claims
memIds     == ids(appState.expenses)
durableIds == ids(getExpenses(World))

C9_RemovedBeforeRemoteDelete ==
    /\ \A i \in DOMAIN tasks :
          (isDelete(tasks[i]) /\ tasks[i].pc \in {"reads", "batch"}) =>
              tasks[i].arg.x \notin memIds /\ tasks[i].arg.x \notin durableIds
    /\ last.toast \in {"deleted", "delete_error"} =>
          last.detail \notin memIds /\ last.detail \notin durableIds

\* C10: when the reads of removeExpenseRow succeed and the id column does not
\* hold the id, the call posts no batchUpdate, leaves the remote rows as they
\* are and returns normally (deleteExpense reports success).
C10_AbsentIdIsNoOp ==
    [][ last'.op = "removeExpenseRowAbsent" =>
            /\ remote' = remote
            /\ \E i \in DOMAIN tasks :
                  /\ tasks[i].pc = "reads" /\ tasks[i].arg.x = last'.detail
                  /\ tasks' = RemoveAt(tasks, i)
            /\ last'.toast = "deleted" ]_vars

C10_Witness ==
    /\ last.op = "removeExpenseRowAbsent"
    /\ Len(remote.files[1].rows) < Len(sampleRows)


\* zero-based position of the first occurrence of id in an identity column
firstAt(col, id) ==
    (CHOOSE p \in DOMAIN col : col[p] = id /\ \A q \in 1 .. p - 1 : col[q] # id) - 1

\* C11: when the identity column read by removeExpenseRow (header excluded)
\* holds the id with its first occurrence at zero-based position k, the call
\* posts exactly one deleteDimension request, for ROWS [k + 1, k + 2); and
\* when the sheet still has the id first at that row as the request is
\* applied, exactly that row is removed and the other rows keep their order.
C11_RowDeleteTargetsFirstMatch ==
    [][ /\ last'.op = "removeExpenseRowFound" =>
            \E i \in DOMAIN tasks :
                /\ tasks[i].pc = "reads" /\ tasks[i].arg.x = last'.detail
                /\ LET k == firstAt(readIdColumn(World, tasks[i].arg.sheet), last'.detail)
                       posted == tasks'[Len(tasks')]
                   IN  /\ Len(tasks') = Len(tasks)
                       /\ SubSeq(tasks', 1, Len(tasks') - 1) = RemoveAt(tasks, i)
                       /\ posted.pc = "batch"
                       /\ posted.arg.sheet = tasks[i].arg.sheet
                       /\ posted.arg.request.dimension = "ROWS"
                       /\ posted.arg.request.startIndex = k + 1
                       /\ posted.arg.request.endIndex = k + 2
                       /\ remote' = remote
        /\ (last'.op = "removeExpenseRowPosted" /\ last'.toast = "deleted") =>
            \E i \in DOMAIN tasks :
                /\ tasks[i].pc = "batch" /\ tasks[i].arg.x = last'.detail
                /\ tasks' = RemoveAt(tasks, i)
                /\ LET f    == fileIndex(World, tasks[i].arg.sheet)
                       rows == remote.files[f].rows
                       col  == readIdColumn(World, tasks[i].arg.sheet)
                       s    == tasks[i].arg.request.startIndex
                   IN  (/\ last'.detail \in Range(col)
                        /\ firstAt(col, last'.detail) + 1 = s) =>
                           remote'.files[f].rows = RemoveAt(rows, s + 1) ]_vars

\* the second record of the sheet (k = 1) was deleted: the header and the
\* first record are left
C11_Witness ==
    /\ last.op = "removeExpenseRowPosted" /\ last.toast = "deleted"
    /\ last.detail = otherExpense.id
    /\ remote.files[1].rows = << headerRow, expenseToRow(sampleExpense) >>


\* ------------------------------------------------------ first sign-in: claims
\* C12: resolveSpreadsheet creates a spreadsheet only when the account holds no
\* non-trashed spreadsheet of the fixed title, whatever requests failed before.
C12_CreatesOnlyWhenNoneExists ==
    [][ Len(remote'.files) > Len(remote.files) => liveStores = {} ]_vars

\* C13: two resolveSpreadsheet calls that interleave at their awaits return the
\* same spreadsheet id, and at most one spreadsheet is created.
C13_ConcurrentResolveAgrees ==
    /\ \A i, j \in DOMAIN tasks :
          (/\ tasks[i].type = "init" /\ tasks[i].pc = "load"
           /\ tasks[j].type = "init" /\ tasks[j].pc = "load")
              => tasks[i].arg.sheet = tasks[j].arg.sheet
    /\ Cardinality(liveStores) <= 1

\* ------------------------------------------------------ reconciliation: claims
\* C14: when the load of refreshDataInBackground fails with HTTP 401 or 403,
\* whatever message the reply carries, the token is removed from tab storage
\* and from the controller state and one silent refresh is started; after any
\* other failure the token is untouched and no flow is started.
C14_AuthFailureSelfHeals ==
    [][ last'.op = "refreshLoaded" =>
            /\ last'.detail \in {"401", "403"} =>
                  /\ ~hasItem(sessionStorage', ACCESS_TOKEN)
                  /\ ~hasItem(sessionStorage', EXPIRES_AT)
                  /\ appState'.accessToken = NULL
                  /\ Len(flows') = Len(flows) + 1
                  /\ flows'[Len(flows')].kind = "silent"
            /\ last'.detail \notin {"200", "401", "403"} =>
                  /\ sessionStorage' = sessionStorage
                  /\ appState'.accessToken = appState.accessToken
                  /\ flows' = flows ]_vars

\* -------------------------------------------------------- startup: claims
\* the page is about to start (init has not settled) and storage holds ...
startsWithSheet == initPc = "loading" /\ truthy(getSheetId(World))

startsWithValidToken ==
    startsWithSheet /\ truthy(getAccessToken(World)) /\ ~isTokenExpired(World)

\* the step taken is onReady (init found the SDKs)
started == last'.op = "init" /\ tokenClient'

\* the status `restoring` that _restoreSession set (the stored token is in
\* the controller state) is left by this step
leavesRestoredSession ==
    /\ appState.authStatus = "restoring" /\ appState.accessToken # NULL
    /\ appState'.authStatus # "restoring"

restoresAndRefreshes ==
    (startsWithValidToken /\ started) =>
        /\ appState'.authStatus = "restoring"
        /\ appState'.accessToken = getAccessToken(World)
        /\ Len(flows') = Len(flows) + 1
        /\ flows'[Len(flows')].kind = "silent"

\* C15 (as the claim states it): startup with a sheet id and a valid token
\* sets `restoring` and issues a silent refresh, and the status becomes
\* `ready` only in the step that completes the reconciliation fetch.
C15_ReadyOnceFetchCompleted ==
    [][ /\ restoresAndRefreshes
        /\ (leavesRestoredSession /\ appState'.authStatus = "ready") =>
                last'.op = "refreshLoaded" ]_vars

\* C15 (amended): startup with a sheet id and a valid token sets `restoring`
\* and issues a silent refresh; the status becomes `ready` in the step in
\* which the provider delivers a token, which suspends onSignIn at the
\* profile fetch: the reconciliation fetch has not been started yet. The
\* only other way out of `restoring` is `unauthenticated`.
C15_ReadyOnTokenResponse ==
    [][ /\ restoresAndRefreshes
        /\ leavesRestoredSession =>
              \/ /\ appState'.authStatus = "ready"
                 /\ last'.op = "response" /\ last'.detail = "token"
                 /\ Len(tasks') = Len(tasks) + 1
                 /\ SubSeq(tasks', 1, Len(tasks)) = tasks
                 /\ tasks'[Len(tasks')].type = "onSignIn"
                 /\ tasks'[Len(tasks')].pc = "profile"
              \/ appState'.authStatus = "unauthenticated" ]_vars

\* the silent refresh issued by _restoreSession (no cached records: the setup
\* screen) delivered a token: `ready`, the profile fetch pending, no
\* reconciliation fetch yet
C15_Witness ==
    /\ appState.authStatus = "ready" /\ appState.currentScreen = "setup"
    /\ last.op = "response" /\ last.detail = "token" /\ last.flow = 1
    /\ flows[1].kind = "silent"
    /\ Len(tasks) = 1 /\ tasks[1].type = "onSignIn"

\* C16: startup with a stored sheet id and no token, or an expired one, takes
\* the status from `unknown` to `restoring` and starts exactly one silent
\* refresh, whose login_hint is the hint held in durable storage at that
\* moment ("" when none is stored).
C16_SilentRestoreUsesStoredHint ==
    [][ (/\ startsWithSheet
         /\ ~truthy(getAccessToken(World)) \/ isTokenExpired(World)
         /\ started) =>
            /\ appState.authStatus = "unknown"
            /\ appState'.authStatus = "restoring"
            /\ Len(flows') = Len(flows) + 1
            /\ flows'[Len(flows')].kind = "silent"
            /\ flows'[Len(flows')].hint =
                  (IF LOGIN_HINT \in DOMAIN localStorage
                   THEN localStorage[LOGIN_HINT] ELSE "") ]_vars

C16_Witness ==
    /\ last.op = "init" /\ appState.authStatus = "restoring"
    /\ appState.accessToken = NULL
    /\ Len(flows) = 1 /\ flows[1].kind = "silent" /\ flows[1].hint = "u@x"

\* C17: the handler of a silent failure sets the status to `unauthenticated`
\* and removes the token and its expiry from tab storage; durable storage
\* (sheet id, cached records, login hint, numeric sheet id) is left as it was.
C17_SilentFailKeepsDurableState ==
    [][ count(last'.sigs, "onSilentFail") > 0 =>
            /\ appState'.authStatus = "unauthenticated"
            /\ appState'.accessToken = NULL
            /\ sessionStorage' = removeItem(removeItem(sessionStorage, ACCESS_TOKEN),
                                            EXPIRES_AT)
            /\ localStorage' = localStorage ]_vars

\* a silent failure was handled on a page whose durable storage holds all
\* four keys
C17_Witness ==
    /\ count(last.sigs, "onSilentFail") = 1
    /\ appState.authStatus = "unauthenticated"
    /\ sessionStorage = EmptyStore
    /\ DOMAIN localStorage = {SHEET_ID, EXPENSES, LOGIN_HINT, NUMERIC_SHEET_ID}

\* C18: startup with no stored sheet id, with or without a token in tab
\* storage, takes the status from `unknown` to `unauthenticated` (it is
\* `unauthenticated` already when signOut() ran before), starts no silent
\* refresh and enables the sign-in button; the status `restoring` is entered
\* only by a startup that found a sheet id.
C18_NoSheetGoesUnauthenticated ==
    [][ /\ (initPc = "loading" /\ ~truthy(getSheetId(World)) /\ started) =>
              /\ appState.authStatus \in {"unknown", "unauthenticated"}
              /\ appState'.authStatus = "unauthenticated"
              /\ flows' = flows
              /\ ~dom'.btnGoogleDisabled
        /\ (appState.authStatus # "restoring" /\ appState'.authStatus = "restoring") =>
              startsWithSheet /\ started ]_vars

\* startup without a sheet id while the tab still holds a token
C18_Witness ==
    /\ last.op = "init" /\ tokenClient
    /\ appState.authStatus = "unauthenticated"
    /\ SHEET_ID \notin DOMAIN localStorage
    /\ ACCESS_TOKEN \in DOMAIN sessionStorage
    /\ flows = << >> /\ ~dom.btnGoogleDisabled

\* ------------------------------------------------------- sign-out: claims
\* C19: every signOut() call completes, at once when the manager holds no
\* token and else when the revocation request settled in whichever way, and
\* its completion leaves no token and no expiry in tab storage, no key in
\* durable storage, the status `unauthenticated`, and has emitted onSignOut
\* exactly once; the step that only suspends the call emits nothing.
C19_SignOutCleansUp ==
    [][ /\ (last'.op = "signOutFinish" \/ (last'.op = "signOut" /\ accessToken = NULL)) =>
              /\ ACCESS_TOKEN \notin DOMAIN sessionStorage'
              /\ EXPIRES_AT \notin DOMAIN sessionStorage'
              /\ DOMAIN localStorage'
                    \cap {SHEET_ID, EXPENSES, LOGIN_HINT, NUMERIC_SHEET_ID} = {}
              /\ appState'.authStatus = "unauthenticated"
              /\ accessToken' = NULL /\ appState'.accessToken = NULL
              /\ last'.sigs = << "onSignOut" >>
        /\ (last'.op = "signOut" /\ accessToken # NULL) =>
              /\ last'.sigs = << >>
              /\ Len(tasks') = Len(tasks) + 1
              /\ tasks'[Len(tasks')].type = "signOut"
        /\ last'.op = "signOutFinish" =>
              \E i \in DOMAIN tasks :
                  tasks[i].type = "signOut" /\ tasks' = RemoveAt(tasks, i) ]_vars

\* a sign-out whose revocation request failed has completed
C19_Witness ==
    /\ last.op = "signOutFinish" /\ last.detail = "network_error"
    /\ last.sigs = << "onSignOut" >>
    /\ sessionStorage = EmptyStore /\ localStorage = EmptyStore
    /\ appState.authStatus = "unauthenticated"

\* ---------------------------------------------------- waitForToken: claims
\* C20: when tab storage holds a token and the clock is before its stored
\* expiry, waitForToken() on a ready manager resolves at once with that token, queues no waiter
\* and starts no silent refresh, also right after a restart in the same tab.
C20_CachedTokenResolvesAtOnce ==
    [][ (/\ last'.op = "waitForToken" /\ tokenClient
         /\ ACCESS_TOKEN \in DOMAIN sessionStorage
         /\ EXPIRES_AT \in DOMAIN sessionStorage
         /\ now < sessionStorage[EXPIRES_AT]) =>
            /\ \E c \in Callers :
                  /\ callers[c].st = "idle"
                  /\ callers'[c] = [st |-> "resolved", val |-> sessionStorage[ACCESS_TOKEN]]
            /\ tokenWaiters' = tokenWaiters
            /\ flows' = flows ]_vars

\* ------------------------------------------------------ token expiry: claims
\* C21: a token delivered at time t with lifetime expires_in is stored with
\* the expiry t + (expires_in - 60) s; from that instant on, the instant
\* itself included, isTokenExpired() is true and waitForToken() does not
\* resolve at once; before it the token counts as usable.
C21_ExpiredFromMarginOn ==
    [][ /\ (last'.op = "response" /\ last'.detail = "token") =>
              \E response \in TokenResponses(last'.flow) :
                  /\ response.error = NULL
                  /\ sessionStorage'[EXPIRES_AT] = now + (response.expires_in - 60) * 1000
        /\ EXPIRES_AT \in DOMAIN sessionStorage =>
              (isTokenExpired(World) <=> now >= sessionStorage[EXPIRES_AT])
        /\ (/\ last'.op = "waitForToken"
            /\ EXPIRES_AT \in DOMAIN sessionStorage
            /\ now >= sessionStorage[EXPIRES_AT]) =>
              \E c \in Callers : callers[c].st = "idle" /\ callers'[c].st = "pending" ]_vars

\* --------------------------------------------------- benign dismissal: claims
\* C22: a benign dismissal on the error channel (consent window closed, or
\* access denied) never takes the failure route (no waiter is settled, no
\* onSilentFail); with a silent flow pending nothing is surfaced, with an
\* interactive flow pending the notice is surfaced (onError), for both kinds.
C22_BenignDismissalSurfacedSoftly ==
    [][ (last'.op = "error" /\ last'.detail = "benign") =>
            /\ last'.settled = {}
            /\ \A k \in DOMAIN last'.sigs : last'.sigs[k] # "onSilentFail"
            /\ pendingFlowType = "silent" => last'.sigs = << >>
            /\ pendingFlowType = "interactive" => last'.sigs = <<"onError">> ]_vars

\* ------------------------------------------------ signIn before ready: claims
\* C23: signIn() called while the token client does not exist yet invokes
\* onError, starts no flow, and leaves the pending-flow tag, the token and the
\* waiter list as they were.
C23_SignInBeforeReadyOnlySignals ==
    [][ (last'.op = "signIn" /\ ~tokenClient) =>
            /\ last'.sigs = <<"onError">>
            /\ flows' = flows
            /\ pendingFlowType' = pendingFlowType
            /\ accessToken' = accessToken
            /\ tokenWaiters' = tokenWaiters
            /\ callers' = callers ]_vars

\* signIn() refused before readiness while a waitForToken() caller is queued
C23_Witness ==
    /\ last.op = "signIn"
    /\ ~tokenClient
    /\ last.sigs = <<"onError">>
    /\ flows = << >>
    /\ tokenWaiters # << >>

\* ------------------------------------------------- local validation: claims
\* C24: submitExpense with an amount field that is empty, is no number or
\* holds a number <= 0, or with no category selected, shows the validation
\* toast, issues no remote call and leaves the in-memory and the durable
\* cache unchanged.
C24_InvalidDraftStaysLocal ==
    [][ (/\ last'.op = "submitExpense"
         /\ \/ last'.detail \in {"", "abc", "-3", "0"}
            \/ ~truthy(appState.selectedCat)) =>
            /\ last'.toast = IF last'.detail \in {"", "abc", "-3", "0"}
                             THEN "enter_amount" ELSE "select_cat"
            /\ tasks' = tasks
            /\ remote' = remote
            /\ uuidCount' = uuidCount
            /\ appState' = appState
            /\ localStorage' = localStorage ]_vars

\* a negative amount refused while an earlier append is still pending
C24_Witness ==
    /\ last.op = "submitExpense"
    /\ last.detail = "-3"
    /\ last.toast = "enter_amount"
    /\ truthy(appState.selectedCat)
    /\ \E i \in DOMAIN tasks : tasks[i].type = "submit"

\* ------------------------------------------------ specification: loading rows
\* The signed-in page while the load of refreshDataInBackground is in flight,
\* over sheets whose rows were written by the app or typed in by hand; records
\* may be added before the load is answered.
MaxRows == 2      \* data rows of the sheet at page load

zeroExpense == [sampleExpense EXCEPT !.amount = 0]
negativeExpense == [otherExpense EXCEPT !.amount = 0 - 3]

\* rows as values/A2:E1000 returns them: written by insertExpense, or by hand
\* (no id and no category, an amount that is no number, an empty row)
RowSamples ==
    { expenseToRow(sampleExpense), expenseToRow(otherExpense),
      expenseToRow(zeroExpense), expenseToRow(negativeExpense),
      [id |-> "", date |-> "2026-01-03", category |-> "",
       amount |-> [t |-> "num", v |-> 5], comment |-> "cash"],
      [id |-> "e3", date |-> "2026-01-04", category |-> "food",
       amount |-> [t |-> "txt", v |-> "abc"], comment |-> ""],
      [id |-> "", date |-> "", category |-> "",
       amount |-> [t |-> "txt", v |-> ""], comment |-> ""] }

SheetRows ==
    UNION { [1 .. n -> RowSamples] : n \in 0 .. MaxRows }

InitLoad ==
    /\ tokenClient = TRUE
    /\ initPc = "done"
    /\ accessToken = "tok1"
    /\ pendingFlowType = NULL
    /\ silentRefreshTimer = 0
    /\ tokenWaiters = << >>
    /\ sessionStorage = sessionReady
    /\ localStorage = durableReady
    /\ appState = [accessToken |-> "tok1", userProfile |-> "u@x", authStatus |-> "ready",
                   spreadsheetId |-> "S1",
                   expenses |-> << sampleExpense, otherExpense >>,
                   currentScreen |-> "main", selectedCat |-> NULL]
    /\ now = 0
    /\ flows = << [kind |-> "silent", hint |-> "u@x", answered |-> TRUE,
                   timer |-> "cleared", due |-> SILENT_REFRESH_TIMEOUT_MS] >>
    /\ callers = [c \in Callers |-> [st |-> "idle", val |-> NULL]]
    /\ tasks = << [type |-> "refresh", pc |-> "load", arg |-> Arg("tok1", "S1", NULL)] >>
    /\ \E rows \in SheetRows :
          remote = [files |-> << [id |-> "S1", title |-> SPREADSHEET_TITLE,
                                  trashed |-> FALSE, numericSheetId |-> 1,
                                  rows |-> << headerRow >> \o rows] >>]
    /\ uuidCount = 0
    /\ dom = [btnGoogleDisabled |-> TRUE]
    /\ last = [op |-> "onSignInProfile", flow |-> 0, detail |-> NULL, sigs |-> << >>,
               settled |-> {}, toast |-> NULL, burst |-> NoBurst]

\* the loadExpenses of services/sheetsService.js settled, under the
\* refreshDataInBackground of controllers/expenseController.js
RefreshSettledDirect ==
    \E i \in DOMAIN tasks :
        /\ tasks[i].type = "refresh" /\ tasks[i].pc = "load"
        /\ \E reply \in Replies(tasks[i].arg.sheet) :
              Do(refreshLoadedDirect(Resume(i, "refreshLoadedDirect", ToString(reply.status)),
                                     tasks[i].arg, reply))

\* The two versions of loadExpenses found in the repository are both offered.
NextLoad ==
    \/ OpenAddModal
    \/ SubmitExpense
    \/ AppendSettled
    \/ RefreshSettled
    \/ RefreshSettledDirect

SpecLoad == InitLoad /\ [][NextLoad]_vars

\* -------------------------------------------------------- loading rows: claims
\* the rows of the read window whose amount cell reads as a positive number
positive(row) == row.amount.t = "num" /\ row.amount.v > 0
survivors(rows) == SelectSeq(rows, positive)

\* records the page can hold: made by submitExpense, or loaded earlier
Records ==
    [id : {"e1", "e2", "u1", "u2"}, date : {"2026-01-01", "2026-01-02", todayStr},
     category : {"food", "home"}, amount : {0 - 3, 0, 7, 12, 30},
     comment : {"", "rent", "tea"}]

loaded == last'.op = "refreshLoaded" /\ last'.detail = "200"

\* C25: a record with a positive amount and a category, written to a row by
\* expenseToRow and read back by a load, is in the loaded records with the
\* same id, date, category, amount and comment; a row written from a record
\* whose amount is zero or negative yields no loaded record.
C25_RoundTrip ==
    [][ loaded =>
            LET rows == readRows(World, "S1")
            IN  /\ \A i \in DOMAIN rows : \A e \in Records :
                      rows[i] = expenseToRow(e) =>
                          IF e.amount > 0
                          THEN \E k \in DOMAIN appState'.expenses :
                                  appState'.expenses[k] = e
                          ELSE \A k \in DOMAIN appState'.expenses :
                                  appState'.expenses[k].id # e.id
                                  \/ \E j \in DOMAIN rows :
                                        j # i /\ rows[j].id = e.id /\ positive(rows[j]) ]_vars

\* a record submitted on the page, appended to the sheet, and read back by the
\* load next to a row written from a record with amount zero
C25_Witness ==
    /\ last.op = "refreshLoaded" /\ last.detail = "200"
    /\ \E k \in DOMAIN appState.expenses :
          appState.expenses[k] = [id |-> "u1", date |-> todayStr, category |-> "food",
                                  amount |-> 7, comment |-> "tea"]
    /\ \E i \in DOMAIN readRows(World, "S1") :
          readRows(World, "S1")[i] = expenseToRow(zeroExpense)
    /\ \A k \in DOMAIN appState.expenses : appState.expenses[k].id # "e1"

\* C26: a load that succeeds yields one record for each row of the read window
\* whose amount reads as a positive number, in the order of the rows and with
\* the row's amount, date, comment and (when the row has one) id; the other
\* rows are dropped and nothing is reported; every loaded record has a positive
\* amount and a non-empty id, and the durable cache holds the loaded records.
C26_LoadKeepsPositiveRows ==
    [][ loaded =>
            LET kept == survivors(readRows(World, "S1"))
                out  == appState'.expenses
            IN  /\ Len(out) = Len(kept)
                /\ \A k \in DOMAIN out :
                      /\ out[k].amount = kept[k].amount.v
                      /\ out[k].date = kept[k].date
                      /\ out[k].comment = kept[k].comment
                      /\ kept[k].id # "" => out[k].id = kept[k].id
                      /\ out[k].amount > 0
                      /\ out[k].id # ""
                /\ last'.toast = NULL
                /\ localStorage'[EXPENSES] = JSONstringify(out) ]_vars

\* a load over a row typed in by hand (no id) and a row whose amount is no number
C26_Witness ==
    /\ last.op = "refreshLoaded" /\ last.detail = "200"
    /\ \E i \in DOMAIN readRows(World, "S1") :
          readRows(World, "S1")[i].amount.t = "txt"
    /\ \E i \in DOMAIN readRows(World, "S1") :
          readRows(World, "S1")[i].id = "" /\ positive(readRows(World, "S1")[i])
    /\ Len(appState.expenses) = 1
    /\ appState.expenses[1].amount = 5
    /\ appState.expenses[1].id = uuid(1)

\* ------------------------------------- specification: sign-in while time passes
\* SpecSetup with the clock and waitForToken(): a token may expire, and a later
\* silent flow may fail, while onSignIn and initSpreadsheet are under way.
NextSession ==
    \/ NextSetup
    \/ Tick
    \/ WaitForToken

SpecSession == InitSetup /\ [][NextSession]_vars

\* --------------------------------------------------- load after sign-in: claims
nTasks(ts, type, pc) ==
    Cardinality({ i \in DOMAIN ts : ts[i].type = type /\ ts[i].pc = pc })

\* C27: when onSignIn goes on after a token was delivered, the spreadsheet is
\* resolved exactly when durable storage holds no sheet id at that moment, and
\* then the first load starts only once the resolution has succeeded; when a
\* sheet id is stored, the background refresh load starts and nothing is resolved.
C27_ResolveIffNoStoredSheet ==
    [][ /\ last'.op = "onSignInProfile" =>
              IF truthy(getSheetId(World))
              THEN /\ nTasks(tasks', "refresh", "load") = nTasks(tasks, "refresh", "load") + 1
                   /\ \A pc \in {"verify", "search", "create", "header", "load"} :
                         nTasks(tasks', "init", pc) = nTasks(tasks, "init", pc)
              ELSE /\ nTasks(tasks', "init", "search") = nTasks(tasks, "init", "search") + 1
                   /\ nTasks(tasks', "init", "load") = nTasks(tasks, "init", "load")
                   /\ nTasks(tasks', "refresh", "load") = nTasks(tasks, "refresh", "load")
        /\ nTasks(tasks', "init", "load") > nTasks(tasks, "init", "load") =>
              /\ last'.op \in {"searched", "headerWritten"}
              /\ truthy(getSheetId([World EXCEPT !.localStorage = localStorage'])) ]_vars

\* C27 (amended): when onSignIn goes on after a token was delivered, the
\* spreadsheet is resolved exactly when durable storage holds no sheet id at
\* that moment, and then the first load starts only once the resolution has
\* succeeded; when a sheet id is stored nothing is resolved, and the background
\* refresh load starts if the page still holds the token (a silent failure in
\* between has dropped it: then no load starts).
C27_ResolveIffNoStoredSheetWithToken ==
    [][ /\ last'.op = "onSignInProfile" =>
              IF truthy(getSheetId(World))
              THEN /\ nTasks(tasks', "refresh", "load") =
                         nTasks(tasks, "refresh", "load")
                         + (IF truthy(appState.accessToken) THEN 1 ELSE 0)
                   /\ \A pc \in {"verify", "search", "create", "header", "load"} :
                         nTasks(tasks', "init", pc) = nTasks(tasks, "init", pc)
              ELSE /\ nTasks(tasks', "init", "search") = nTasks(tasks, "init", "search") + 1
                   /\ nTasks(tasks', "init", "load") = nTasks(tasks, "init", "load")
                   /\ nTasks(tasks', "refresh", "load") = nTasks(tasks, "refresh", "load")
        /\ nTasks(tasks', "init", "load") > nTasks(tasks, "init", "load") =>
              /\ last'.op \in {"searched", "headerWritten"}
              /\ truthy(getSheetId([World EXCEPT !.localStorage = localStorage'])) ]_vars

\* the first load of a sheet that was just created, started once its header
\* row was written and its id stored
C27_Witness ==
    /\ last.op = "headerWritten"
    /\ nTasks(tasks, "init", "load") = 1
    /\ truthy(getSheetId(World))
    /\ appState.spreadsheetId = getSheetId(World)

\* ------------------------------------------------------ new spreadsheet: claims
\* C28: the id of a spreadsheet that resolveSpreadsheet created is stored, and
\* the first load started, only when the PUT of the 5-column header row has
\* succeeded: the POST that creates the file stores nothing; when the PUT
\* fails the resolution fails (error shown, no load) and durable storage and
\* STATE.spreadsheetId stay as they were.
C28_NewSheetStoredAfterHeader ==
    [][ /\ last'.op = "created" =>
              /\ localStorage' = localStorage
              /\ appState'.spreadsheetId = appState.spreadsheetId
        /\ (last'.op = "headerWritten" /\ last'.detail = "failed") =>
              /\ localStorage' = localStorage
              /\ appState'.spreadsheetId = appState.spreadsheetId
              /\ last'.toast = "error"
              /\ appState'.currentScreen = "auth"
              /\ nTasks(tasks', "init", "load") = nTasks(tasks, "init", "load")
        /\ (last'.op = "headerWritten" /\ last'.detail = "written") =>
              \E i \in DOMAIN tasks :
                  /\ tasks[i].type = "init" /\ tasks[i].pc = "header"
                  /\ localStorage'[SHEET_ID] = tasks[i].arg.sheet
                  /\ appState'.spreadsheetId = tasks[i].arg.sheet
                  /\ remote'.files[fileIndex(World, tasks[i].arg.sheet)].rows
                        = << [id |-> "ID", date |-> "Date", category |-> "Category",
                              amount |-> [t |-> "txt", v |-> "Amount"],
                              comment |-> "Comment"] >>
                  /\ nTasks(tasks', "init", "load") = nTasks(tasks, "init", "load") + 1 ]_vars

\* the PUT of the header failed: the file exists in Drive, its id is not stored
C28_Witness ==
    /\ last.op = "headerWritten" /\ last.detail = "failed"
    /\ ~hasItem(localStorage, SHEET_ID)
    /\ \E k \in DOMAIN remote.files : remote.files[k].rows = << >>

\* ------------------------------------------- specification: the record cache
\* The cache key of durable storage as earlier sessions, other versions of the
\* page or the user may have left it, read when the page loads and written
\* by the handlers that save STATE.expenses.
MaxCached == 2      \* records of a cached array

CachedArrays ==
    UNION { [1 .. n -> {sampleExpense, otherExpense, zeroExpense}] : n \in 0 .. MaxCached }

\* texts of the cache key
RawSamples ==
    { JSONstringify(expenses) : expenses \in CachedArrays }
    \cup { [json |-> k, v |-> << >>] : k \in {"empty", "invalid", "null", "object", "number", "boolean"} }

CachedStores ==
    LET bases == {EmptyStore, setItem(EmptyStore, SHEET_ID, "S1")}
    IN  bases \cup { setItem(base, EXPENSES, raw) : base \in bases, raw \in RawSamples }

InitCache ==
    /\ InitCommon
    /\ sessionStorage = EmptyStore
    /\ localStorage \in CachedStores
    /\ appState = [accessToken |-> NULL, userProfile |-> NULL, authStatus |-> "unknown",
                   spreadsheetId |-> NULL, expenses |-> << >>,
                   currentScreen |-> "auth", selectedCat |-> NULL]

\* DOMContentLoaded of a fresh page: restoreCachedExpenses(); expenses.length
\* throws a TypeError when getExpenses() returned null
RestoreCachedExpenses ==
    LET value == getExpensesValue(localStorage)
        fresh == [Run("restoreCachedExpenses", 0, value.type) EXCEPT !.appState.expenses = << >>]
    IN  IF truthy(getSheetId(World)) /\ value.type = "null"
        THEN Do([fresh EXCEPT !.last.detail = "TypeError"])
        ELSE Do([fresh EXCEPT !.appState.expenses = restoreCachedExpenses(localStorage)])

\* STATE.expenses = expenses; Storage.saveExpenses(expenses)
SaveExpenses ==
    \E expenses \in CachedArrays :
        Do(saveExpenses([Run("saveExpenses", 0, NULL) EXCEPT !.appState.expenses = expenses],
                        expenses))

NextCache ==
    \/ RestoreCachedExpenses
    \/ SaveExpenses

SpecCache == InitCache /\ [][NextCache]_vars

\* ------------------------------------------------------ the record cache: claims
\* C29: getExpenses() always returns a sequence: the empty one when the cache
\* key is missing or holds text that is no JSON or JSON that is no array, the
\* stored one otherwise.
C29_GetExpensesReturnsSequence ==
    LET value == getExpensesValue(localStorage)
    IN  /\ value.type = "array"
        /\ value.v = IF hasItem(localStorage, EXPENSES) /\ localStorage[EXPENSES].json = "array"
                     THEN localStorage[EXPENSES].v ELSE << >>

\* ------------------------------------------------ who writes the cache: claims
\* C30: the sheetsService operations do not write the cache key of durable
\* storage themselves: when a load is answered, loadExpenses leaves
\* localStorage as it was (the handler that awaited it writes the cache), and
\* so does the append of a row when appendExpense is answered.
C30_ClientLeavesCacheAlone ==
    [][ /\ (last'.op = "refreshLoaded" /\ last'.detail = "200") =>
              \A i \in DOMAIN tasks :
                  tasks[i].type = "refresh" =>
                      loadExpenses(World, tasks[i].arg.sheet).w.localStorage = localStorage
        /\ (last'.op = "refreshLoadedDirect" /\ last'.detail = "200") =>
              \A i \in DOMAIN tasks :
                  tasks[i].type = "refresh" =>
                      loadExpensesDirect(World, tasks[i].arg.sheet).w.localStorage = localStorage
        /\ (last'.op = "appended" /\ last'.toast = "added") =>
              \A i \in DOMAIN tasks :
                  tasks[i].type = "submit" =>
                      appendRow(World, tasks[i].arg.sheet, expenseToRow(tasks[i].arg.x)).localStorage
                          = localStorage ]_vars

\* ------------------------------------- specification: deleting from a stale cache
\* The signed-in page of SpecLoad, whose cache may differ from the sheet, with
\* the delete buttons of the listed records.
NextStale ==
    \/ RefreshSettled
    \/ DeleteExpenseLocalFirst
    \/ AnimationDone
    \/ DeleteExpenseRemoteFirst
    \/ ReadsSettled
    \/ BatchSettled

SpecStale == InitLoad /\ [][NextStale]_vars

\* ------------------------------------------------- numeric sheet id: claims
\* C31: removeExpenseRow asks for the spreadsheet's metadata exactly when no
\* numeric sheet id is cached, and once the reads of a call that asked for it
\* are answered the numeric sheet id is cached, also when the id column does
\* not hold the record's id.
C31_MetadataFetchedOnce ==
    [][ /\ \A i \in DOMAIN tasks' :
              (isDelete(tasks'[i]) /\ tasks'[i].pc = "reads"
                 /\ \A j \in DOMAIN tasks : tasks[j] # tasks'[i]) =>
                  (tasks'[i].arg.cached.has <=> hasItem(localStorage, NUMERIC_SHEET_ID))
        /\ last'.op \in {"removeExpenseRowFound", "removeExpenseRowAbsent"} =>
              \A i \in DOMAIN tasks :
                  (/\ isDelete(tasks[i]) /\ tasks[i].pc = "reads"
                   /\ tasks[i].arg.x = last'.detail
                   /\ ~tasks[i].arg.cached.has) =>
                      hasItem(localStorage', NUMERIC_SHEET_ID) ]_vars

\* ------------------------------------------------ overlapping deletes: claims
\* ids in the id column of the sheet `S1` of a remote store
idsInSheet(r) == Range(readIdColumn([remote |-> r], "S1"))

\* C32: every positional delete the server applied, issued for an id the sheet
\* still holds (no delete of the same id ran before it), removed the row
\* carrying that id and no row with another id, also when a delete of another
\* id was started before it completed.
C32_DeleteRemovesItsOwnRow ==
    [][ (/\ last'.op = "removeExpenseRowPosted" /\ last'.toast = "deleted"
         /\ last'.detail \in idsInSheet(remote)) =>
            idsInSheet(remote) \ idsInSheet(remote') = {last'.detail} ]_vars

\* ------------------------------- specification: a load overtaken by an append
\* The page of SpecLoad with the reply of the values request seen on its way:
\* the server reads the rows when it handles the request, the page gets them
\* when the reply arrives, and an append may be handled in between.

\* the server handles GET values/A2:E1000 of a pending load: the reply that
\* travels back holds the sheet of that moment
ValuesServed ==
    \E i \in DOMAIN tasks :
        /\ tasks[i].type = "refresh" /\ tasks[i].pc = "load"
        /\ alive(tasks[i].arg.sheet)
        /\ Do([Run("valuesServed", 0, NULL) EXCEPT
                  !.tasks[i] = [type |-> "refresh", pc |-> "reply",
                                arg  |-> Arg(tasks[i].arg.token, tasks[i].arg.sheet, remote)]])

\* the reply of a served values request arrives: refreshDataInBackground goes
\* on with the rows the server read (arg.x), the sheet itself is as it is now
RefreshReplyArrives ==
    \E i \in DOMAIN tasks :
        /\ tasks[i].type = "refresh" /\ tasks[i].pc = "reply"
        /\ LET w0 == Resume(i, "refreshLoaded", "200")
               w1 == refreshLoaded([w0 EXCEPT !.remote = tasks[i].arg.x], tasks[i].arg,
                                   [ok |-> TRUE, status |-> 200, message |-> NULL])
           IN  Do([w1 EXCEPT !.remote = remote])

NextRace ==
    \/ OpenAddModal
    \/ SubmitExpense
    \/ AppendSettled
    \/ RefreshSettled
    \/ ValuesServed
    \/ RefreshReplyArrives

SpecRace == InitLoad /\ [][NextRace]_vars

\* ------------------------------------------------------ added records: claims
\* the ids of the records submitExpense appended (the only ones dated todayStr)
addedIds(expenses) ==
    { expenses[i].id : i \in { j \in DOMAIN expenses : expenses[j].date = todayStr } }

\* C33: a record that submitExpense added after a successful append stays in
\* the in-memory list and in the durable cache at every step that is neither a
\* delete nor a sign-out, also when a reconciliation load started before the
\* append is answered after it.
C33_AddedRecordStaysCached ==
    [][ /\ addedIds(appState.expenses) \subseteq ids(appState'.expenses)
        /\ addedIds(appState.expenses) \subseteq ids(getExpensesValue(localStorage').v) ]_vars

\* ------------------------------------------------------ after sign-out: claims
\* C34: when signOut() has just completed (onSignOut was emitted) and the next
\* thing to happen is a provider response, a provider error or a fallback timer
\* (so the flow it belongs to was started before the sign-out), the session
\* stays signed out: no token in the manager or in tab storage, status
\* `unauthenticated`, no sign-in signal.
C34_SignedOutStays ==
    [][ (/\ count(last.sigs, "onSignOut") = 1
         /\ last'.op \in {"response", "error", "timer"}) =>
            /\ accessToken' = NULL
            /\ ~hasItem(sessionStorage', ACCESS_TOKEN)
            /\ appState'.authStatus = "unauthenticated"
            /\ count(last'.sigs, "onSignIn") = 0 ]_vars

DurableKeys == {SHEET_ID, EXPENSES, LOGIN_HINT, NUMERIC_SHEET_ID}

\* C35: onSignOut leaves none of the durable keys (sheet id, cached records,
\* login hint, numeric sheet id), and when the next thing to happen is the
\* continuation of a request started before the sign-out (the profile fetch of
\* onSignIn, a reconciliation load), the keys are still absent afterwards.
C35_DurableKeysStayWiped ==
    [][ /\ count(last'.sigs, "onSignOut") = 1 =>
              \A k \in DurableKeys : ~hasItem(localStorage', k)
        /\ (/\ count(last.sigs, "onSignOut") = 1
            /\ last'.op \in {"onSignInProfile", "refreshLoaded"}) =>
              \A k \in DurableKeys : ~hasItem(localStorage', k) ]_vars

\* ------------------------------------------------------ session status: claims
\* C36: in every state, status `ready` implies that the controller holds an
\* access token and a sheet id, and status `unauthenticated` implies that the
\* controller holds no access token.
C36_StatusMatchesSession ==
    /\ appState.authStatus = "ready" =>
          truthy(appState.accessToken) /\ truthy(appState.spreadsheetId)
    /\ appState.authStatus = "unauthenticated" => appState.accessToken = NULL

\* ---------------------------------------------------- late responses: claims
\* C37: when the fallback timer of a silent flow has just emitted onSilentFail
\* and the provider then answers that same flow (success or error channel),
\* the answer emits no further signal and the status stays `unauthenticated`.
C37_OneTerminalSignal ==
    [][ (/\ last.op = "timer" /\ last.sigs = << "onSilentFail" >>
         /\ last'.op \in {"response", "error"} /\ last'.flow = last.flow) =>
            /\ last'.sigs = << >>
            /\ appState'.authStatus = "unauthenticated" ]_vars

\* ------------------------------------ specification: the self-healing cycle
\* The signed-in page of SpecLoad in front of a sheet that answers every load
\* with an authorization error the page recognises, while the provider grants
\* every silent request.

\* loadExpenses of refreshDataInBackground is answered with 401 or 403
RefreshDenied ==
    \E i \in DOMAIN tasks :
        /\ tasks[i].type = "refresh" /\ tasks[i].pc = "load"
        /\ \E reply \in { r \in Replies(tasks[i].arg.sheet) :
                            ~r.ok /\ r.status \in {401, 403} /\ r.message = NULL } :
              Do(refreshLoaded(Resume(i, "refreshLoaded", ToString(reply.status)),
                               tasks[i].arg, reply))

\* the provider grants the silent request of flow f. Once every request is
\* answered and no fallback timer is armed, the record of the requests is
\* dropped: the code keeps no handle of them and nothing can come of them.
TokenGranted ==
    \E f \in DOMAIN flows :
        /\ ~flows[f].answered /\ flows[f].kind = "silent"
        /\ LET w0 == Run("response", f, "token")
               w1 == _onTokenResponse([w0 EXCEPT !.flows[f].answered = TRUE],
                                      [error |-> NULL, access_token |-> "tok" \o ToString(f),
                                       expires_in |-> 65])
               over == \A g \in DOMAIN w1.flows :
                          w1.flows[g].answered /\ w1.flows[g].timer # "armed"
           IN  Do(IF over THEN [w1 EXCEPT !.flows = << >>, !.last.flow = 0] ELSE w1)

NextHeal ==
    \/ RefreshDenied
    \/ TokenGranted
    \/ ProfileSettled

SpecHeal == InitLoad /\ [][NextHeal]_vars

\* every reply and every continuation is eventually delivered
SpecHealFair == SpecHeal /\ WF_vars(NextHeal)

\* ------------------------------------------------ self-healing cycle: claims
\* nothing is pending any more, or the page gave up: it is `unauthenticated`,
\* or it told the user (a toast, onError)
stoppedHealing ==
    \/ tasks = << >> /\ \A f \in DOMAIN flows : flows[f].answered
    \/ appState.authStatus = "unauthenticated"
    \/ last.toast # NULL
    \/ count(last.sigs, "onError") > 0

\* C38: when every reconciliation load is answered with 401/403 and every
\* silent request is granted, the page eventually stops re-authorizing.
C38_SelfHealingStops == <>stoppedHealing

\* --------------------------------------------------- adopted sheets: claims
\* the spreadsheet with this id has the header row in its first row
hasHeader(id) ==
    LET rows == remote.files[fileIndex(World, id)].rows
    IN  rows # << >> /\ rows[1] = headerRow

\* C39: whenever resolveSpreadsheet returns a spreadsheet, found by the search
\* for the title or just created, that spreadsheet has the header row in its
\* first row.
C39_ResolvedSheetHasHeader ==
    (\/ last.op = "searched" /\ last.detail # NULL
     \/ last.op = "headerWritten" /\ last.detail = "written") =>
        hasHeader(localStorage[SHEET_ID])

\* ---------------------------------------------------- loaded records: claims
\* e is the record a load builds from one of the rows (given e's id as the
\* uuid() drawn where the row has none)
builtFrom(e, rows) ==
    \E i \in DOMAIN rows : ~isNull(rows[i]) /\ rowToExpense(rows[i], e.id) = e

\* C40: a delete of a listed record that a load builds from a row the sheet
\* holds finds that row (it never ends as "no such row"), and a load that
\* follows a load at once, the sheet unchanged, returns the same records with
\* the same ids.
C40_LoadedRecordKeepsItsRow ==
    [][ /\ last'.op = "removeExpenseRowAbsent" =>
              ~\E i \in DOMAIN appState.expenses :
                  /\ appState.expenses[i].id = last'.detail
                  /\ builtFrom(appState.expenses[i], readRows(World, "S1"))
        /\ loaded => appState'.expenses = loadExpenses(World', "S1").expenses ]_vars

=============================================================================
